---- MODULE Spec2Model ----
(***************************************************************************)
(* Model of the SSH connection pool and command executor of                *)
(* src/backend/config/SSHManager.js (class SSHManager, lines 5-570, the    *)
(* first of the two class texts the file holds).                           *)
(*                                                                         *)
(* Every getConnection / executeCommand invocation is a call with its own  *)
(* position (pc).  The awaits of the source (db.execute, the connect       *)
(* promise, conn.exec, the stream's close) are the points where other      *)
(* calls and transport events interleave; the code between two awaits is   *)
(* one atomic action, as on the single-threaded event loop.                *)
(* An ssh2 Client is a session record; the transport delivers its ready,   *)
(* error and close events as separate steps.                               *)
(*                                                                         *)
(* uploadFile is a call as well, with one position per sftp callback.      *)
(* The provisioning and introspection methods (createUserDirectory,        *)
(* createUserFolder, createCompleteUserStructure, checkDirectoryExists)    *)
(* are tasks: they see executeCommand as a promise that resolves with the  *)
(* command's stdout or rejects, and `remote` holds the directories of the  *)
(* host the commands run on.                                               *)
(***************************************************************************)
EXTENDS Integers, Sequences, FiniteSets, TLC

VARIABLES
    connections,     \* this.connections: Map connectionKey -> connectionData (session id)
    operationQueue,  \* this.operationQueue: Map operationKey -> timestamp
    sessions,        \* every ssh2 Client created so far, in creation order
    directory,       \* table wowza_servers: codigo -> row
    now,             \* Date.now()
    calls,           \* the invocations of getConnection / executeCommand / uploadFile
    remote,          \* the directories that exist on the remote host
    tasks,           \* the invocations of the provisioning and introspection operations
    files,           \* the files that exist on the remote host: path -> size in bytes
    lastCleanup,     \* when the interval timer of startCacheCleanup last fired (or was set)
    requests,        \* the requests of the upload and delete routes in progress
    videos           \* table videos: id -> row

vars == <<connections, operationQueue, sessions, directory, now, calls, remote, tasks, files,
          lastCleanup, requests, videos>>

(***************************************************************************)
(* Bounds of the model.                                                    *)
(***************************************************************************)
NumCalls == 2        \* invocations per behaviour
MaxTicks == 1        \* clock advances per behaviour
MaxChunks == 1       \* data chunks per output stream of one command
NumExec == 1         \* executeCommand invocations per behaviour of SpecExec
NumTasks == 2        \* provisioning / introspection invocations per behaviour
NumSerial == 1       \* provisioning calls in progress at a time in SpecSerial
MaxWaits == 2        \* long pauses of the clock
MaxLines == 3        \* lines of a command's output
NumRetries == 2      \* provisioning calls made one after another in SpecRetry
MaxRequests == 2     \* requests a route serves per behaviour

(***************************************************************************)
(* Program constants.                                                      *)
(***************************************************************************)
cooldownPeriod == 5000
Tick == cooldownPeriod        \* the clock advances one cooldown period at a time
StartTime == Tick             \* Date.now() at construction, positive

Calls == 1 .. NumCalls
ServerIds == 1 .. 4          \* codigo values used as arguments; 4 has no row
NoSession == 0
Commands == {"false", "ls"}
NoExit == -2                  \* the stream has not closed
NoCode == -1                  \* a stream closed without an exit status (code undefined)
ExitCodes == {0, 1, 2, NoCode}
Chunks == {"x"}

(***************************************************************************)
(* Map operations (JavaScript Map: has / get / set / delete).              *)
(***************************************************************************)
MapHas(m, k) == k \in DOMAIN m
MapSet(m, k, v) == [x \in (DOMAIN m) \cup {k} |-> IF x = k THEN v ELSE m[x]]
MapDelete(m, k) == [x \in (DOMAIN m) \ {k} |-> m[x]]
EmptyMap == [x \in {} |-> 0]

(***************************************************************************)
(* Remote Host Directory: the rows of wowza_servers.  Ids 1 and 2 are two  *)
(* logical servers on the same physical host; id 3 is another host,        *)
(* marked inactive; id 4 has no row.                                       *)
(***************************************************************************)
Rows ==
    [id \in {1, 2, 3} |->
        [codigo |-> id,
         ip |-> IF id = 3 THEN "10.0.0.6" ELSE "10.0.0.5",
         porta_ssh |-> 22,
         status |-> IF id = 3 THEN "inativo" ELSE "ativo"]]

\* Mutant: the query without its status filter.
ActiveRowsAnyStatus(id) ==
    IF id \in DOMAIN directory THEN <<directory[id]>> ELSE <<>>

\* SELECT ... FROM wowza_servers WHERE codigo = ? AND status = "ativo"
ActiveRows(id) ==
    IF id \in DOMAIN directory /\ directory[id].status = "ativo"
    THEN <<directory[id]>>
    ELSE <<>>

\* SELECT ip, porta_ssh FROM wowza_servers WHERE codigo = ?
AnyRows(id) ==
    IF id \in DOMAIN directory THEN <<directory[id]>> ELSE <<>>

\* Mutant: the pool keyed by the logical server id.
ConnectionKeyPerServer(server) == <<server.codigo, server.porta_ssh>>

\* `${server.ip}:${server.porta_ssh}`
ConnectionKey(server) == <<server.ip, server.porta_ssh>>

\* `connection_${serverId}`
ConnectionCooldownKey(serverId) == <<"connection", "_", ToString(serverId)>>

(***************************************************************************)
(* Cooldown bookkeeping.                                                   *)
(***************************************************************************)
\* Mutant: an entry exactly one cooldown period old still counts.
isOperationInCooldownInclusive(operationKey) ==
    /\ MapHas(operationQueue, operationKey)
    /\ now - operationQueue[operationKey] <= cooldownPeriod

isOperationInCooldown(operationKey) ==
    /\ MapHas(operationQueue, operationKey)
    /\ now - operationQueue[operationKey] < cooldownPeriod

markOperationExecuted(operationKey) == MapSet(operationQueue, operationKey, now)

(***************************************************************************)
(* Sessions: one record per ssh2 Client.                                   *)
(***************************************************************************)
NewSession(server, serverId) ==
    [key |-> ConnectionKey(server),   \* connectionKey captured by the handlers
     server |-> server,               \* connectionData.server
     serverId |-> serverId,           \* serverId captured by the ready handler
     phase |-> "connecting",   \* "ready" once the ready event was emitted
     destroyed |-> FALSE,      \* conn._sock.destroyed
     errPending |-> FALSE,     \* an error event is queued for delivery
     closed |-> FALSE,         \* the close event was delivered
     ended |-> FALSE]          \* conn.end() was called

SessionIds == 1 .. Len(sessions)

\* existingConn.conn && existingConn.conn._sock && !existingConn.conn._sock.destroyed
SockAlive(s) == ~sessions[s].destroyed

\* handshake completed, not ended, transport not closed
Live(s) ==
    /\ sessions[s].phase = "ready"
    /\ ~sessions[s].ended
    /\ ~sessions[s].destroyed

\* transport error/close (Lost) or explicit teardown (Closed)
Terminal(s) == sessions[s].destroyed \/ sessions[s].ended

(***************************************************************************)
(* Calls.                                                                  *)
(***************************************************************************)
NoError == [kind |-> "none", code |-> NoCode, stderr |-> <<>>, sess |-> NoSession]
NoResult == [success |-> FALSE, stdout |-> <<>>, stderr |-> <<>>, code |-> NoCode]

IdleCall ==
    [op |-> "none", pc |-> "idle", serverId |-> 0, command |-> "",
     remotePath |-> <<>>,     \* uploadFile's destination
     localSize |-> 0,         \* the byte length of uploadFile's local file
     sftpLog |-> EmptyMap,    \* the sftp callbacks that ran: step -> no error
     sess |-> NoSession,      \* the Client this call created and awaits
     conn |-> NoSession,      \* the connectionData getConnection returned
     stdout |-> <<>>, stderr |-> <<>>,
     exit |-> NoExit,         \* the code the stream's close event carried
     result |-> NoResult, error |-> NoError]

\* getConnection resolves with connectionData s.  For executeCommand the
\* continuation runs conn.exec(command, callback) at once.
Resolved(c, s) ==
    [calls[c] EXCEPT
        !.conn = s,
        !.pc = CASE calls[c].op = "getConnection" -> "done"
                 [] calls[c].op = "uploadFile" -> "sftpOpen"
                 [] OTHER -> "execOpen"]

\* The call's promise rejects; the catch blocks rethrow.
Rejected(c, err) == [calls[c] EXCEPT !.pc = "failed", !.error = err]

EndpointUnavailable == [NoError EXCEPT !.kind = "Servidor nao encontrado ou inativo"]
ConnectFailure(s) == [NoError EXCEPT !.kind = "ssh", !.sess = s]
ChannelError(s) == [NoError EXCEPT !.kind = "exec", !.sess = s]
\* new Error(`Comando falhou com código ${code}: ${stderr}`)
CommandFailed(code, stderr) ==
    [NoError EXCEPT !.kind = "Comando falhou com codigo", !.code = code, !.stderr = stderr]

Init ==
    /\ connections = EmptyMap
    /\ operationQueue = EmptyMap
    /\ sessions = <<>>
    /\ directory = Rows
    /\ now = StartTime
    /\ calls = [c \in Calls |-> IdleCall]
    /\ remote = {}
    /\ tasks = <<>>
    /\ files = EmptyMap
    /\ lastCleanup = StartTime
    /\ requests = <<>>
    /\ videos = EmptyMap

(***************************************************************************)
(* getConnection(serverId), lines 33-121.                                  *)
(***************************************************************************)
\* The synchronous head of the call: the cooldown test of line 37 decides
\* which db.execute is awaited first.
Begin(c, op, serverId, command) ==
    /\ calls[c].pc = "idle"
    /\ \A d \in Calls : d < c => calls[d].pc # "idle"
    /\ calls' = [calls EXCEPT ![c] =
            [IdleCall EXCEPT
                !.op = op, !.serverId = serverId, !.command = command,
                !.pc = IF isOperationInCooldown(ConnectionCooldownKey(serverId))
                       THEN "fastQuery" ELSE "mainQuery"]]
    /\ UNCHANGED <<connections, operationQueue, sessions, directory, now, remote, tasks, files, lastCleanup, requests, videos>>

GetConnection(c, serverId) == Begin(c, "getConnection", serverId, "")

\* Lines 39-50: the cooldown fast path after its query returned.
FastQuery(c) ==
    /\ calls[c].pc = "fastQuery"
    /\ LET serverRows == ActiveRows(calls[c].serverId)
           hit == /\ Len(serverRows) > 0
                  /\ MapHas(connections, ConnectionKey(serverRows[1]))
       IN calls' = [calls EXCEPT ![c] =
            IF hit
            THEN Resolved(c, connections[ConnectionKey(serverRows[1])])
            ELSE [calls[c] EXCEPT !.pc = "mainQuery"]]
    /\ UNCHANGED <<connections, operationQueue, sessions, directory, now, remote, tasks, files, lastCleanup, requests, videos>>

\* Lines 60-62: no active row.
MainQueryUnavailable(c) ==
    /\ calls[c].pc = "mainQuery"
    /\ Len(ActiveRows(calls[c].serverId)) = 0
    /\ calls' = [calls EXCEPT ![c] = Rejected(c, EndpointUnavailable)]
    /\ UNCHANGED <<connections, operationQueue, sessions, directory, now, remote, tasks, files, lastCleanup, requests, videos>>

\* Lines 68-72: a pooled session whose socket is not destroyed is returned.
MainQueryReuse(c) ==
    /\ calls[c].pc = "mainQuery"
    /\ Len(ActiveRows(calls[c].serverId)) > 0
    /\ LET connectionKey == ConnectionKey(ActiveRows(calls[c].serverId)[1])
       IN /\ MapHas(connections, connectionKey)
          /\ SockAlive(connections[connectionKey])
          /\ calls' = [calls EXCEPT ![c] = Resolved(c, connections[connectionKey])]
    /\ UNCHANGED <<connections, operationQueue, sessions, directory, now, remote, tasks, files, lastCleanup, requests, videos>>

\* Lines 73-115: a dead entry is deleted, a new Client is created, its
\* handlers are registered and conn.connect starts the handshake.
MainQueryConnect(c) ==
    /\ calls[c].pc = "mainQuery"
    /\ Len(ActiveRows(calls[c].serverId)) > 0
    /\ LET connectionKey == ConnectionKey(ActiveRows(calls[c].serverId)[1])
       IN /\ ~(MapHas(connections, connectionKey) /\ SockAlive(connections[connectionKey]))
          /\ connections' = MapDelete(connections, connectionKey)
          /\ sessions' = Append(sessions,
                NewSession(ActiveRows(calls[c].serverId)[1], calls[c].serverId))
          /\ calls' = [calls EXCEPT ![c] =
                [calls[c] EXCEPT !.pc = "connecting", !.sess = Len(sessions) + 1]]
    /\ UNCHANGED <<operationQueue, directory, now, remote, tasks, files, lastCleanup, requests, videos>>

MainQuery(c) ==
    \/ MainQueryUnavailable(c)
    \/ MainQueryReuse(c)
    \/ MainQueryConnect(c)

(***************************************************************************)
(* Transport events of a Client and their handlers, lines 81-104.          *)
(***************************************************************************)
Awaiting(c, s) == calls[c].pc = "connecting" /\ calls[c].sess = s

\* conn.on('ready'), lines 81-94.
EvReady(s) ==
    /\ sessions[s].phase = "connecting"
    /\ ~sessions[s].destroyed
    /\ sessions' = [sessions EXCEPT ![s].phase = "ready"]
    /\ connections' = MapSet(connections, sessions[s].key, s)
    /\ operationQueue' = markOperationExecuted(ConnectionCooldownKey(sessions[s].serverId))
    /\ calls' = [c \in Calls |->
            IF Awaiting(c, s)
            THEN Resolved(c, s)
            ELSE calls[c]]
    /\ UNCHANGED <<directory, now, remote, tasks, files, lastCleanup, requests, videos>>

\* The transport of a Client fails or is closed by the peer: the socket is
\* destroyed at once, the events follow.  withError tells whether an error
\* event precedes the close event (handshake timeout, keepalive timeout,
\* socket error) or the socket just closes.
TransportFault(s, withError) ==
    /\ ~sessions[s].destroyed
    /\ sessions' = [sessions EXCEPT ![s].destroyed = TRUE, ![s].errPending = withError]
    /\ UNCHANGED <<connections, operationQueue, directory, now, calls, remote, tasks, files, lastCleanup, requests, videos>>

\* conn.on('error'), lines 96-99: reject(err), nothing else.
EvError(s) ==
    /\ sessions[s].errPending
    /\ sessions' = [sessions EXCEPT ![s].errPending = FALSE]
    /\ calls' = [c \in Calls |->
            IF Awaiting(c, s) THEN Rejected(c, ConnectFailure(s)) ELSE calls[c]]
    /\ UNCHANGED <<connections, operationQueue, directory, now, remote, tasks, files, lastCleanup, requests, videos>>

\* conn.on('close'), lines 101-104: this.connections.delete(connectionKey).
EvClose(s) ==
    /\ sessions[s].destroyed
    /\ ~sessions[s].errPending
    /\ ~sessions[s].closed
    /\ sessions' = [sessions EXCEPT ![s].closed = TRUE]
    /\ connections' = MapDelete(connections, sessions[s].key)
    /\ UNCHANGED <<operationQueue, directory, now, calls, remote, tasks, files, lastCleanup, requests, videos>>

(***************************************************************************)
(* closeConnection (the then-callback of its query) and                    *)
(* closeAllConnections, lines 535-567.                                     *)
(***************************************************************************)
End(ss, S) == [s \in DOMAIN ss |-> IF s \in S THEN [ss[s] EXCEPT !.ended = TRUE] ELSE ss[s]]

CloseConnection(serverId) ==
    /\ Len(AnyRows(serverId)) > 0
    /\ LET connectionKey == ConnectionKey(AnyRows(serverId)[1])
       IN /\ MapHas(connections, connectionKey)
          /\ sessions' = End(sessions, {connections[connectionKey]})
          /\ connections' = MapDelete(connections, connectionKey)
    /\ UNCHANGED <<operationQueue, directory, now, calls, remote, tasks, files, lastCleanup, requests, videos>>

CloseAllConnections ==
    /\ DOMAIN connections # {}
    /\ sessions' = End(sessions, {connections[k] : k \in DOMAIN connections})
    /\ connections' = EmptyMap
    /\ UNCHANGED <<operationQueue, directory, now, calls, remote, tasks, files, lastCleanup, requests, videos>>

(***************************************************************************)
(* Environment: the clock.                                                 *)
(***************************************************************************)
Advance ==
    /\ now < StartTime + MaxTicks * Tick
    /\ now' = now + Tick
    /\ UNCHANGED <<connections, operationQueue, sessions, directory, calls, remote, tasks, files, lastCleanup, requests, videos>>

PoolNext ==
    \/ \E c \in Calls, id \in ServerIds : GetConnection(c, id)
    \/ \E c \in Calls : FastQuery(c)
    \/ \E c \in Calls : MainQuery(c)
    \/ \E s \in SessionIds : EvReady(s)
    \/ \E s \in SessionIds, withError \in BOOLEAN : TransportFault(s, withError)
    \/ \E s \in SessionIds : EvError(s)
    \/ \E s \in SessionIds : EvClose(s)
    \/ \E id \in ServerIds : CloseConnection(id)
    \/ CloseAllConnections
    \/ Advance

Next == PoolNext

Spec == Init /\ [][Next]_vars

(***************************************************************************)
(* executeCommand(serverId, command), lines 123-158.                       *)
(***************************************************************************)
ExecuteCommand(c, serverId, command) == Begin(c, "executeCommand", serverId, command)

\* The exit status the remote shell reports for a command line.
RemoteExit(command) ==
    IF command = "false" THEN {1} ELSE {0, 2}

\* conn.exec's callback, lines 128-133: an error rejects, otherwise the
\* stream's handlers are registered with empty stdout and stderr.
ExecCallback(c, ok) ==
    /\ calls[c].pc = "execOpen"
    /\ ok => SockAlive(calls[c].conn)
    /\ calls' = [calls EXCEPT ![c] =
            IF ok
            THEN [calls[c] EXCEPT !.pc = "streaming", !.stdout = <<>>, !.stderr = <<>>]
            ELSE Rejected(c, ChannelError(calls[c].conn))]
    /\ UNCHANGED <<connections, operationQueue, sessions, directory, now, remote, tasks, files, lastCleanup, requests, videos>>

\* stream.on('data'), lines 145-147.
StreamData(c, data) ==
    /\ calls[c].pc = "streaming"
    /\ Len(calls[c].stdout) < MaxChunks
    /\ calls' = [calls EXCEPT ![c].stdout = Append(@, data)]
    /\ UNCHANGED <<connections, operationQueue, sessions, directory, now, remote, tasks, files, lastCleanup, requests, videos>>

\* stream.stderr.on('data'), lines 149-151.
StreamStderr(c, data) ==
    /\ calls[c].pc = "streaming"
    /\ Len(calls[c].stderr) < MaxChunks
    /\ calls' = [calls EXCEPT ![c].stderr = Append(@, data)]
    /\ UNCHANGED <<connections, operationQueue, sessions, directory, now, remote, tasks, files, lastCleanup, requests, videos>>

\* Mutant: the close handler resolves whatever the code.
CloseOutcomeAlwaysResolves(call, code) ==
    [call EXCEPT
        !.pc = "done", !.exit = code,
        !.result = [success |-> TRUE, stdout |-> call.stdout,
                    stderr |-> call.stderr, code |-> code]]

\* The outcome of the stream's close handler, lines 138-142.
CloseOutcome(call, code) ==
    IF code = 0
    THEN [call EXCEPT
            !.pc = "done", !.exit = code,
            !.result = [success |-> TRUE, stdout |-> call.stdout,
                        stderr |-> call.stderr, code |-> code]]
    ELSE [call EXCEPT
            !.pc = "failed", !.exit = code,
            !.stdout = <<>>, !.stderr = <<>>,   \* dropped with the handler's closure
            !.error = CommandFailed(code, call.stderr)]

\* stream.on('close'), lines 137-143.
StreamClose(c, code) ==
    /\ calls[c].pc = "streaming"
    /\ code \in RemoteExit(calls[c].command) \cup {NoCode}
    /\ calls' = [calls EXCEPT ![c] = CloseOutcome(calls[c], code)]
    /\ UNCHANGED <<connections, operationQueue, sessions, directory, now, remote, tasks, files, lastCleanup, requests, videos>>

(***************************************************************************)
(* The remote host's paths.  Strings are sequences of pieces (characters,  *)
(* or words that no function looks inside); concatenation is \o.           *)
(***************************************************************************)
Users == {<<"alice">>}
Folders == {<<"clips">>}

HomeDir == <<"/home/streaming">>
UserDir(userLogin) == HomeDir \o <<"/">> \o userLogin
FolderPath(userLogin, folderName) == UserDir(userLogin) \o <<"/">> \o folderName

\* A file name no method reads anything into, and one that holds the word
\* the shell prints for a missing path.
FileNames == {<<"v.mp4">>, <<"N", "O", "T", "_", "E", "X", "I", "S", "T", "S", ".mp4">>}
FilePath(dir, name) == dir \o <<"/">> \o name
FilePaths == {FilePath(FolderPath(u, f), n) : u \in Users, f \in Folders, n \in FileNames}
FileSizes == {0, 2048}

\* path.dirname of an absolute path below the home directory.
dirname(p) ==
    LET last == CHOOSE i \in 1 .. Len(p) :
                    p[i] = "/" /\ \A j \in (i + 1) .. Len(p) : p[j] # "/"
    IN SubSeq(p, 1, last - 1)

(***************************************************************************)
(* uploadFile, lines 160-198: getConnection, then four nested callbacks    *)
(* (sftp, mkdir, fastPut, chmod).  A callback reports success only over a  *)
(* transport that is still up; it can report an error at any time.         *)
(***************************************************************************)
\* The call up to the first await of its getConnection.
EnterUploadFile(serverId, remotePath, localSize) ==
    [IdleCall EXCEPT
        !.op = "uploadFile", !.serverId = serverId,
        !.remotePath = remotePath, !.localSize = localSize,
        !.pc = IF isOperationInCooldown(ConnectionCooldownKey(serverId))
               THEN "fastQuery" ELSE "mainQuery"]

UploadFile(c, serverId, remotePath, localSize) ==
    /\ calls[c].pc = "idle"
    /\ \A d \in Calls : d < c => calls[d].pc # "idle"
    /\ calls' = [calls EXCEPT ![c] = EnterUploadFile(serverId, remotePath, localSize)]
    /\ UNCHANGED <<connections, operationQueue, sessions, directory, now, remote, tasks, files, lastCleanup, requests, videos>>

SftpError(s) == [NoError EXCEPT !.kind = "sftp", !.sess = s]
UploadError(s) == [NoError EXCEPT !.kind = "fastPut", !.sess = s]

\* What the call resolves with, line 188.
UploadResult == [NoResult EXCEPT !.success = TRUE]

\* A callback of the sftp subsystem ran, with an error or without one.
Logged(call, step, ok) == [call EXCEPT !.sftpLog = MapSet(@, step, ok)]

\* Mutant: the transfer is started without the mkdir of the remote directory.
SftpOutcomeSkipsMkdir(c, ok) ==
    IF ok
    THEN [calls[c] EXCEPT !.pc = "fastPut"]
    ELSE Rejected(c, SftpError(calls[c].conn))

\* conn.sftp's callback, lines 165-173.
SftpOutcome(c, ok) ==
    IF ok
    THEN [calls[c] EXCEPT !.pc = "sftpMkdir"]
    ELSE Rejected(c, SftpError(calls[c].conn))

SftpCallback(c, ok) ==
    /\ calls[c].pc = "sftpOpen"
    /\ ok => SockAlive(calls[c].conn)
    /\ calls' = [calls EXCEPT ![c] = SftpOutcome(c, ok)]
    /\ UNCHANGED <<connections, operationQueue, sessions, directory, now, remote, tasks, files, lastCleanup, requests, videos>>

\* Mutant: a failed mkdir of the remote directory leaves the call where it is.
MkdirOutcomeStopsOnError(call, ok) ==
    IF ok THEN [call EXCEPT !.pc = "fastPut"] ELSE call

\* sftp.mkdir's callback, lines 173-176: the error is ignored.
MkdirOutcome(call, ok) == [call EXCEPT !.pc = "fastPut"]

\* sftp.mkdir makes one directory: it succeeds only where the directory is
\* missing and its parent is there.
SftpMkdirCallback(c, ok) ==
    /\ calls[c].pc = "sftpMkdir"
    /\ ok => /\ SockAlive(calls[c].conn)
             /\ dirname(calls[c].remotePath) \notin remote
             /\ dirname(dirname(calls[c].remotePath)) \in remote
    /\ calls' = [calls EXCEPT ![c] = Logged(MkdirOutcome(calls[c], ok), "mkdir", ok)]
    /\ remote' = IF ok THEN remote \cup {dirname(calls[c].remotePath)} ELSE remote
    /\ UNCHANGED <<connections, operationQueue, sessions, directory, now, tasks, files, lastCleanup, requests, videos>>

\* Mutant: a failed transfer goes on to the permission step.
FastPutOutcomeIgnoresError(c, ok) == [calls[c] EXCEPT !.pc = "sftpChmod"]

\* sftp.fastPut's callback, lines 176-180.
FastPutOutcome(c, ok) ==
    IF ok
    THEN [calls[c] EXCEPT !.pc = "sftpChmod"]
    ELSE Rejected(c, UploadError(calls[c].conn))

\* A transfer that completes has written the whole local file into a
\* directory that is there.
FastPutCallback(c, ok) ==
    /\ calls[c].pc = "fastPut"
    /\ ok => /\ SockAlive(calls[c].conn)
             /\ dirname(calls[c].remotePath) \in remote
    /\ calls' = [calls EXCEPT ![c] = Logged(FastPutOutcome(c, ok), "fastPut", ok)]
    /\ files' = IF ok THEN MapSet(files, calls[c].remotePath, calls[c].localSize) ELSE files
    /\ UNCHANGED <<connections, operationQueue, sessions, directory, now, remote, tasks, lastCleanup, requests, videos>>

\* sftp.chmod's callback, lines 183-189: an error is only warned about.
SftpChmodCallback(c, ok) ==
    /\ calls[c].pc = "sftpChmod"
    /\ ok => SockAlive(calls[c].conn)
    /\ calls' = [calls EXCEPT ![c] =
            Logged([calls[c] EXCEPT !.pc = "done", !.result = UploadResult], "chmod", ok)]
    /\ UNCHANGED <<connections, operationQueue, sessions, directory, now, remote, tasks, files, lastCleanup, requests, videos>>

\* The pool after one getConnection(serverId) has completed at StartTime.
WarmPool(serverId) ==
    /\ connections = MapSet(EmptyMap, ConnectionKey(Rows[serverId]), 1)
    /\ operationQueue = MapSet(EmptyMap, ConnectionCooldownKey(serverId), StartTime)
    /\ sessions = <<[NewSession(Rows[serverId], serverId) EXCEPT !.phase = "ready"]>>

ColdPool ==
    /\ connections = EmptyMap
    /\ operationQueue = EmptyMap
    /\ sessions = <<>>

\* The servers commands are sent to: one with an active row, one with none.
ExecServerIds == {1, 4}

InitExec ==
    /\ ColdPool \/ WarmPool(1) \/ WarmPool(2)
    /\ directory = Rows
    /\ now = StartTime
    /\ calls = [c \in Calls |-> IdleCall]
    /\ remote = {HomeDir} \cup {UserDir(u) : u \in Users}
    /\ tasks = <<>>
    /\ files = EmptyMap
    /\ lastCleanup = StartTime
    /\ requests = <<>>
    /\ videos = EmptyMap

ExecNext ==
    \/ \E c \in 1 .. NumExec, id \in ExecServerIds, command \in Commands :
            ExecuteCommand(c, id, command)
    \/ \E c \in Calls : FastQuery(c)
    \/ \E c \in Calls : MainQuery(c)
    \/ \E s \in SessionIds : EvReady(s)
    \/ \E s \in SessionIds, withError \in BOOLEAN : TransportFault(s, withError)
    \/ \E s \in SessionIds : EvError(s)
    \/ \E s \in SessionIds : EvClose(s)
    \/ \E c \in Calls, ok \in BOOLEAN : ExecCallback(c, ok)
    \/ \E c \in Calls, data \in Chunks : StreamData(c, data)
    \/ \E c \in Calls, data \in Chunks : StreamStderr(c, data)
    \/ \E c \in Calls, code \in ExitCodes : StreamClose(c, code)

SpecExec == InitExec /\ [][ExecNext]_vars

(***************************************************************************)
(* Fair delivery: a query that was issued returns, a handshake that was    *)
(* started ends (ready, or the transport fails or closes), and an event    *)
(* that is due is delivered.                                               *)
(***************************************************************************)
HandshakeEnds(s) ==
    /\ s \in SessionIds
    /\ sessions[s].phase = "connecting"
    /\ EvReady(s) \/ \E withError \in BOOLEAN : TransportFault(s, withError)

ErrorDelivered(s) == s \in SessionIds /\ EvError(s)
CloseDelivered(s) == s \in SessionIds /\ EvClose(s)

Fairness ==
    /\ \A c \in Calls : WF_vars(FastQuery(c)) /\ WF_vars(MainQuery(c))
    /\ \A s \in Calls :
        /\ WF_vars(HandshakeEnds(s))
        /\ WF_vars(ErrorDelivered(s))
        /\ WF_vars(CloseDelivered(s))

FairSpec == Init /\ [][Next]_vars /\ Fairness

(***************************************************************************)
(* Commands and transfers on a session that can be lost: executeCommand    *)
(* and uploadFile, output chunks left out.  Every callback of an issued    *)
(* request is eventually invoked (ssh2 fails the pending requests of a     *)
(* closed Client and closes its channels).                                 *)
(***************************************************************************)
TransferServerIds == ExecServerIds
TransferCommands == {"ls"}
TransferPaths == {FilePath(FolderPath(u, f), <<"v.mp4">>) : u \in Users, f \in Folders}
TransferSizes == {2048}

TransferNext ==
    \/ \E c \in 1 .. NumExec, id \in TransferServerIds, command \in TransferCommands :
            ExecuteCommand(c, id, command)
    \/ \E c \in 1 .. NumExec, id \in TransferServerIds, p \in TransferPaths, size \in TransferSizes :
            UploadFile(c, id, p, size)
    \/ \E c \in Calls : FastQuery(c)
    \/ \E c \in Calls : MainQuery(c)
    \/ \E s \in SessionIds : EvReady(s)
    \/ \E s \in SessionIds, withError \in BOOLEAN : TransportFault(s, withError)
    \/ \E s \in SessionIds : EvError(s)
    \/ \E s \in SessionIds : EvClose(s)
    \/ \E c \in Calls, ok \in BOOLEAN : ExecCallback(c, ok)
    \/ \E c \in Calls, code \in ExitCodes : StreamClose(c, code)
    \/ \E c \in Calls, ok \in BOOLEAN : SftpCallback(c, ok)
    \/ \E c \in Calls, ok \in BOOLEAN : SftpMkdirCallback(c, ok)
    \/ \E c \in Calls, ok \in BOOLEAN : FastPutCallback(c, ok)
    \/ \E c \in Calls, ok \in BOOLEAN : SftpChmodCallback(c, ok)

CallbackInvoked(c) ==
    \/ \E ok \in BOOLEAN : ExecCallback(c, ok)
    \/ \E code \in ExitCodes : StreamClose(c, code)
    \/ \E ok \in BOOLEAN : SftpCallback(c, ok)
    \/ \E ok \in BOOLEAN : SftpMkdirCallback(c, ok)
    \/ \E ok \in BOOLEAN : FastPutCallback(c, ok)
    \/ \E ok \in BOOLEAN : SftpChmodCallback(c, ok)

FairSpecTransfer ==
    /\ InitExec /\ [][TransferNext]_vars
    /\ Fairness
    /\ \A c \in Calls : WF_vars(CallbackInvoked(c))

\* Transfers to a host where the destination directory is there already,
\* or only its parent is.
InitTransfer ==
    /\ ColdPool \/ WarmPool(1) \/ WarmPool(2)
    /\ directory = Rows
    /\ now = StartTime
    /\ calls = [c \in Calls |-> IdleCall]
    /\ remote \in { {HomeDir} \cup {UserDir(u) : u \in Users},
                    {HomeDir} \cup {UserDir(u) : u \in Users}
                              \cup {FolderPath(u, f) : u \in Users, f \in Folders} }
    /\ tasks = <<>>
    /\ files = EmptyMap
    /\ lastCleanup = StartTime
    /\ requests = <<>>
    /\ videos = EmptyMap

SpecTransfer == InitTransfer /\ [][TransferNext]_vars

(***************************************************************************)
(* Provisioning and introspection, lines 200-388.  Every invocation is a   *)
(* task; the code between two awaits of executeCommand is one atomic       *)
(* action.  The commands run on one host (server 1); the promise of an     *)
(* issued command resolves with the command's stdout or rejects (transport *)
(* failure or a non-zero exit status, lines 138-142).                       *)
(***************************************************************************)
Tasks == 1 .. NumTasks
ProvServerId == 1


\* Array.prototype.join.
RECURSIVE Join(_, _)
Join(params, sep) ==
    IF params = <<>> THEN <<>>
    ELSE IF Len(params) = 1 THEN params[1]
    ELSE params[1] \o <<sep>> \o Join(Tail(params), sep)

generateOperationKey(operation, params) == <<operation, "_">> \o Join(params, "_")

UserDirectoryKey(userLogin) ==
    generateOperationKey("createUserDirectory", <<<<ToString(ProvServerId)>>, userLogin>>)
UserFolderKey(userLogin, folderName) ==
    generateOperationKey("createUserFolder", <<<<ToString(ProvServerId)>>, userLogin, folderName>>)
CompleteStructureKey(userLogin) ==
    generateOperationKey("createCompleteUserStructure", <<<<ToString(ProvServerId)>>, userLogin>>)
CheckStructureKey(userLogin) ==
    generateOperationKey("checkCompleteUserStructure", <<<<ToString(ProvServerId)>>, userLogin>>)
DirExistsCacheKey(path) == <<"dir_exists", "_", ToString(ProvServerId), "_">> \o path

\* The text the remote shell writes for  test -d p && echo "EXISTS" || echo "NOT_EXISTS".
EXISTS == <<"E", "X", "I", "S", "T", "S">>
NOT_EXISTS == <<"N", "O", "T", "_", "E", "X", "I", "S", "T", "S">>
Echo(word) == word \o <<"\n">>
TestOutput(path) == IF path \in remote THEN Echo(EXISTS) ELSE Echo(NOT_EXISTS)

\* What the check command's stdout can be: the shell's answer, or nothing
\* at all (a host that runs a forced command instead of the one sent).
CheckOutputs(path) == {TestOutput(path), <<>>}

\* String.prototype.includes.
includes(text, word) ==
    \E i \in 1 .. (Len(text) - Len(word) + 1) :
        SubSeq(text, i, i + Len(word) - 1) = word

TestCommand(path) == [kind |-> "test", path |-> path]
NoCommand == [kind |-> "none", path |-> <<>>]

\* commands of createUserDirectory, lines 220-226.
UserDirectoryCommands(userDir) ==
    << [kind |-> "mkdir", path |-> userDir],
       [kind |-> "mkdir", path |-> userDir \o <<"/">> \o <<"recordings">>],
       [kind |-> "mkdir", path |-> userDir \o <<"/">> \o <<"logos">>],
       [kind |-> "chown", path |-> userDir],
       [kind |-> "chmod", path |-> userDir] >>

\* commands of createUserFolder, lines 271-275.
UserFolderCommands(folderPath) ==
    << [kind |-> "mkdir", path |-> folderPath],
       [kind |-> "chmod", path |-> folderPath],
       [kind |-> "chown", path |-> folderPath] >>

\* The directories above a path.
Ancestors(path) ==
    {SubSeq(path, 1, i - 1) : i \in {j \in 1 .. Len(path) : path[j] = "/"}}

\* What a command that ran to completion did to the remote host.
RemoteEffect(fs, command) ==
    IF command.kind = "mkdir"
    THEN fs \cup {command.path} \cup Ancestors(command.path)
    ELSE fs

\* The object an introspection call returns, before there is one.
NoInfo == [exists |-> FALSE]

IdleTask ==
    [op |-> "none", pc |-> "idle", userLogin |-> <<>>, folderName |-> <<>>,
     path |-> <<>>, command |-> NoCommand, step |-> 0, issued |-> <<>>,
     stdout |-> <<>>, delegations |-> 0, skipped |-> FALSE,
     result |-> "none", info |-> NoInfo, error |-> "none", caught |-> "none"]

\* await this.executeCommand(serverId, command)
Issue(task, pc, command) ==
    [task EXCEPT !.pc = pc, !.command = command, !.issued = Append(@, command)]

Succeed(task, result) ==
    [task EXCEPT !.pc = "done", !.command = NoCommand, !.caught = "none", !.result = result]

Fail(task, error) ==
    [task EXCEPT !.pc = "failed", !.command = NoCommand, !.caught = "none", !.error = error]

\* The value a catch block returns instead of rethrowing.
Caught(task) == [task EXCEPT !.caught = "command"]

\* A boolean return value.
BoolResult(b) == IF b THEN "true" ELSE "false"

\* The path a task's existence check is about.
TargetPath(task) ==
    CASE task.op = "createUserFolder" -> FolderPath(task.userLogin, task.folderName)
      [] task.op = "checkDirectoryExists" -> task.path
      [] OTHER -> UserDir(task.userLogin)

\* The creation commands of a task.
CreationCommands(task) ==
    IF task.op = "createUserFolder"
    THEN UserFolderCommands(TargetPath(task))
    ELSE UserDirectoryCommands(TargetPath(task))

\* The cooldown keys a task records when it succeeds: its own, and for
\* createCompleteUserStructure the delegate's first (lines 216/242, 321).
MarkAll(queue, keys) ==
    [k \in (DOMAIN queue) \cup keys |-> IF k \in keys THEN now ELSE queue[k]]

SuccessKeys(task) ==
    CASE task.op = "createUserDirectory" -> {UserDirectoryKey(task.userLogin)}
      [] task.op = "createUserFolder" -> {UserFolderKey(task.userLogin, task.folderName)}
      [] task.op = "createCompleteUserStructure" ->
            {UserDirectoryKey(task.userLogin), CompleteStructureKey(task.userLogin)}
      [] OTHER -> {}

\* Mutant: the keys are recorded when the call ends, thrown or not.
RecordSuccessOrFailure(queue, task) ==
    IF task.pc \in {"done", "failed"} THEN MarkAll(queue, SuccessKeys(task)) ELSE queue

\* Mutant: the keys are recorded whether or not the call has succeeded.
RecordSuccessRegardless(queue, task) == MarkAll(queue, SuccessKeys(task))

\* markOperationExecuted on the success paths only (lines 216, 242, 267,
\* 297, 321): a call that threw or is still running records nothing.
RecordSuccess(queue, task) ==
    IF task.pc = "done" THEN MarkAll(queue, SuccessKeys(task)) ELSE queue

\* Task t is invoked and runs up to its first await.
Start(t, task) ==
    /\ tasks[t].pc = "idle"
    /\ \A u \in 1 .. (t - 1) : tasks[u].pc # "idle"
    /\ tasks' = [tasks EXCEPT ![t] = task]

\* createUserDirectory up to its first await, lines 200-213.
EnterUserDirectory(task) ==
    IF isOperationInCooldown(UserDirectoryKey(task.userLogin))
    THEN Succeed([task EXCEPT !.skipped = TRUE], "success")
    ELSE Issue(task, "check", TestCommand(UserDir(task.userLogin)))

CreateUserDirectory(t, userLogin) ==
    /\ Start(t, EnterUserDirectory(
            [IdleTask EXCEPT !.op = "createUserDirectory", !.userLogin = userLogin]))
    /\ UNCHANGED <<connections, operationQueue, sessions, directory, now, calls, remote, files, lastCleanup, requests, videos>>

\* createUserFolder up to its first await, lines 251-264.
EnterUserFolder(userLogin, folderName) ==
    LET task == [IdleTask EXCEPT !.op = "createUserFolder",
                     !.userLogin = userLogin, !.folderName = folderName]
    IN  IF isOperationInCooldown(UserFolderKey(userLogin, folderName))
        THEN Succeed([task EXCEPT !.skipped = TRUE], "success")
        ELSE Issue(task, "check", TestCommand(FolderPath(userLogin, folderName)))

CreateUserFolder(t, userLogin, folderName) ==
    /\ Start(t, EnterUserFolder(userLogin, folderName))
    /\ UNCHANGED <<connections, operationQueue, sessions, directory, now, calls, remote, files, lastCleanup, requests, videos>>

\* createCompleteUserStructure up to its first await, lines 307-319: its
\* own cooldown test, then the call of createUserDirectory, which may
\* itself be skipped and then lets the caller finish at once (line 321).
EnterCompleteUserStructure(userLogin) ==
    LET task == [IdleTask EXCEPT !.op = "createCompleteUserStructure", !.userLogin = userLogin]
        inner == EnterUserDirectory([task EXCEPT !.delegations = @ + 1])
    IN  IF isOperationInCooldown(CompleteStructureKey(userLogin))
        THEN Succeed([task EXCEPT !.skipped = TRUE], "success")
        ELSE IF inner.pc = "done"
        THEN [inner EXCEPT !.skipped = FALSE]
        ELSE inner

\* The cooldown map after that: the call's own entry is recorded (line 321)
\* when it was not skipped and its delegate returned at once.
CompleteStructureEntered(userLogin) ==
    LET task == EnterCompleteUserStructure(userLogin)
    IN  IF task.pc = "done" /\ ~task.skipped
        THEN markOperationExecuted(CompleteStructureKey(userLogin))
        ELSE operationQueue

CreateCompleteUserStructure(t, userLogin) ==
    /\ Start(t, EnterCompleteUserStructure(userLogin))
    /\ operationQueue' = CompleteStructureEntered(userLogin)
    /\ UNCHANGED <<connections, sessions, directory, now, calls, remote, files, lastCleanup, requests, videos>>

\* The calls whose command is the one of checkDirectoryExists: the method
\* itself, and checkCompleteUserStructure, which awaits it (line 345).
DirectoryCheckOps == {"checkDirectoryExists", "checkCompleteUserStructure"}

\* checkCompleteUserStructure after its await, line 347: the cooldown
\* entry is recorded whatever checkDirectoryExists answered.
StructureChecked(queue, task) ==
    IF task.op = "checkCompleteUserStructure"
    THEN MapSet(queue, CheckStructureKey(task.userLogin), now)
    ELSE queue

\* checkDirectoryExists up to its first await, lines 364-374.
\* Mutant: an entry exactly 30 s old still counts as fresh.
DirExistsCachedInclusive(path) ==
    /\ MapHas(operationQueue, DirExistsCacheKey(path))
    /\ now - operationQueue[DirExistsCacheKey(path)].timestamp <= 30000

DirExistsCached(path) ==
    /\ MapHas(operationQueue, DirExistsCacheKey(path))
    /\ now - operationQueue[DirExistsCacheKey(path)].timestamp < 30000

CheckDirectoryExists(t, path) ==
    /\ LET task == [IdleTask EXCEPT !.op = "checkDirectoryExists", !.path = path]
       IN Start(t, IF DirExistsCached(path)
                   THEN Succeed([task EXCEPT !.skipped = TRUE],
                                BoolResult(operationQueue[DirExistsCacheKey(path)].result))
                   ELSE Issue(task, "check", TestCommand(path)))
    /\ UNCHANGED <<connections, operationQueue, sessions, directory, now, calls, remote, files, lastCleanup, requests, videos>>

\* checkCompleteUserStructure up to its first await, lines 330-345: the
\* cooldown answer, or the call of checkDirectoryExists, which answers from
\* its cache at once or sends its command.
CheckCompleteUserStructure(t, userLogin) ==
    LET task == [IdleTask EXCEPT !.op = "checkCompleteUserStructure",
                     !.userLogin = userLogin, !.path = UserDir(userLogin)]
    IN  IF isOperationInCooldown(CheckStructureKey(userLogin))
        THEN /\ Start(t, Succeed([task EXCEPT !.skipped = TRUE], "true"))
             /\ UNCHANGED <<connections, operationQueue, sessions, directory, now, calls, remote, files, lastCleanup, requests, videos>>
        ELSE IF DirExistsCached(task.path)
        THEN /\ Start(t, Succeed([task EXCEPT !.delegations = 1],
                                 BoolResult(operationQueue[DirExistsCacheKey(task.path)].result)))
             /\ operationQueue' = StructureChecked(operationQueue, task)
             /\ UNCHANGED <<connections, sessions, directory, now, calls, remote, files, lastCleanup, requests, videos>>
        ELSE /\ Start(t, Issue([task EXCEPT !.delegations = 1], "check", TestCommand(task.path)))
             /\ UNCHANGED <<connections, operationQueue, sessions, directory, now, calls, remote, files, lastCleanup, requests, videos>>

\* Mutant: the creation commands are issued whatever the check printed.
CheckOutcomeAlwaysCreates(task, ok, stdout) ==
    IF task.op \in DirectoryCheckOps
    THEN IF ok THEN Succeed([task EXCEPT !.stdout = stdout], BoolResult(includes(stdout, EXISTS)))
               ELSE Caught(Succeed(task, "false"))
    ELSE IF ~ok THEN Fail(task, "command")
    ELSE [Issue(task, "create", CreationCommands(task)[1]) EXCEPT
                !.stdout = stdout, !.step = 1]

\* The first existence check settles.  createUserDirectory lines 213-218,
\* createUserFolder lines 264-269, checkDirectoryExists lines 374-387.
CheckOutcome(task, ok, stdout) ==
    IF task.op \in DirectoryCheckOps
    THEN IF ok THEN Succeed([task EXCEPT !.stdout = stdout], BoolResult(includes(stdout, EXISTS)))
               ELSE Caught(Succeed(task, "false"))
    ELSE IF ~ok THEN Fail(task, "command")
    ELSE IF includes(stdout, EXISTS)
         THEN Succeed([task EXCEPT !.stdout = stdout], "success")
         ELSE [Issue(task, "create", CreationCommands(task)[1]) EXCEPT
                    !.stdout = stdout, !.step = 1]

SettleCheck(t, ok, stdout) ==
    /\ tasks[t].pc = "check"
    /\ stdout \in (IF ok THEN CheckOutputs(TargetPath(tasks[t])) ELSE {<<>>})
    /\ LET task == CheckOutcome(tasks[t], ok, stdout)
       IN /\ tasks' = [tasks EXCEPT ![t] = task]
          /\ operationQueue' =
                IF task.op \notin DirectoryCheckOps THEN RecordSuccess(operationQueue, task)
                ELSE StructureChecked(
                        IF ok
                        THEN MapSet(operationQueue, DirExistsCacheKey(task.path),
                                    [timestamp |-> now, result |-> includes(stdout, EXISTS)])
                        ELSE operationQueue,
                        task)
    /\ UNCHANGED <<connections, sessions, directory, now, calls, remote, files, lastCleanup, requests, videos>>

\* The catch of a creation command, lines 234-237 and 283-286: the error
\* is warned about and gone by the next iteration.
Warn(task, ok) ==
    [task EXCEPT !.caught = IF ok THEN "none" ELSE task.command.kind]

\* Mutant: an error of a creation command is rethrown.
CreationOutcomeRethrows(task, ok) ==
    IF ~ok THEN Fail(task, "command")
    ELSE IF task.step < Len(CreationCommands(task))
    THEN [Issue(task, "create", CreationCommands(task)[task.step + 1]) EXCEPT !.step = @ + 1]
    ELSE IF task.op = "createUserFolder"
    THEN Issue(task, "recheck", TestCommand(TargetPath(task)))
    ELSE Succeed(task, "success")

\* The loops over the creation commands, lines 228-238 and 277-287: the
\* outcome of a command, resolved or rejected, is only logged.  After the
\* last one createUserDirectory is done (lines 240-244) and
\* createUserFolder checks again (line 290).
CreationOutcome(task, ok) ==
    LET logged == Warn(task, ok)
    IN  IF task.step < Len(CreationCommands(task))
        THEN [Issue(logged, "create", CreationCommands(task)[task.step + 1]) EXCEPT !.step = @ + 1]
        ELSE IF task.op = "createUserFolder"
        THEN Issue(logged, "recheck", TestCommand(TargetPath(task)))
        ELSE Succeed(logged, "success")

SettleCreation(t, ok) ==
    /\ tasks[t].pc = "create"
    /\ LET task == CreationOutcome(tasks[t], ok)
       IN /\ tasks' = [tasks EXCEPT ![t] = task]
          /\ operationQueue' = RecordSuccess(operationQueue, task)
    /\ remote' = IF ok THEN RemoteEffect(remote, tasks[t].command) ELSE remote
    /\ UNCHANGED <<connections, sessions, directory, now, calls, files, lastCleanup, requests, videos>>

\* The final existence check of createUserFolder settles, lines 290-299.
RecheckOutcome(task, ok, stdout) ==
    IF ~ok THEN Fail(task, "command")
    ELSE IF ~includes(stdout, EXISTS)
    THEN Fail([task EXCEPT !.stdout = stdout], "Pasta nao foi criada")
    ELSE Succeed([task EXCEPT !.stdout = stdout], "success")

SettleRecheck(t, ok, stdout) ==
    /\ tasks[t].pc = "recheck"
    /\ stdout \in (IF ok THEN CheckOutputs(TargetPath(tasks[t])) ELSE {<<>>})
    /\ LET task == RecheckOutcome(tasks[t], ok, stdout)
       IN /\ tasks' = [tasks EXCEPT ![t] = task]
          /\ operationQueue' = RecordSuccess(operationQueue, task)
    /\ UNCHANGED <<connections, sessions, directory, now, calls, remote, files, lastCleanup, requests, videos>>

\* The directories a host can hold before any call is made.
InitialRemotes ==
    { {HomeDir} } \cup
    { {HomeDir, UserDir(u)} : u \in Users } \cup
    { {HomeDir, UserDir(u), FolderPath(u, f)} : u \in Users, f \in Folders }

CheckedPaths ==
    {UserDir(u) : u \in Users} \cup {FolderPath(u, f) : u \in Users, f \in Folders}

InitProv ==
    /\ connections = EmptyMap
    /\ operationQueue = EmptyMap
    /\ sessions = <<>>
    /\ directory = Rows
    /\ now = StartTime
    /\ calls = [c \in Calls |-> IdleCall]
    /\ remote \in InitialRemotes
    /\ files = EmptyMap
    /\ lastCleanup = StartTime
    /\ requests = <<>>
    /\ videos = EmptyMap
    /\ tasks = [t \in Tasks |-> IdleTask]

ProvNext ==
    \/ \E t \in DOMAIN tasks, u \in Users : CreateUserDirectory(t, u)
    \/ \E t \in DOMAIN tasks, u \in Users, f \in Folders : CreateUserFolder(t, u, f)
    \/ \E t \in DOMAIN tasks, u \in Users : CreateCompleteUserStructure(t, u)
    \/ \E t \in DOMAIN tasks, ok \in BOOLEAN, out \in {Echo(EXISTS), Echo(NOT_EXISTS), <<>>} :
            SettleCheck(t, ok, out)
    \/ \E t \in DOMAIN tasks, ok \in BOOLEAN : SettleCreation(t, ok)
    \/ \E t \in DOMAIN tasks, ok \in BOOLEAN, out \in {Echo(EXISTS), Echo(NOT_EXISTS), <<>>} :
            SettleRecheck(t, ok, out)
    \/ Advance

SpecProv == InitProv /\ [][ProvNext]_vars

\* Calls made one after another: the caller takes the outcome of a call that
\* has returned or thrown, which frees the task for the next call.
Return(t) ==
    /\ tasks[t].pc \in {"done", "failed"}
    /\ tasks' = [tasks EXCEPT ![t] = IdleTask]
    /\ UNCHANGED <<connections, operationQueue, sessions, directory, now, calls, remote, files, lastCleanup, requests, videos>>

InitSerial ==
    /\ connections = EmptyMap
    /\ operationQueue = EmptyMap
    /\ sessions = <<>>
    /\ directory = Rows
    /\ now = StartTime
    /\ calls = [c \in Calls |-> IdleCall]
    /\ remote \in InitialRemotes
    /\ files = EmptyMap
    /\ lastCleanup = StartTime
    /\ requests = <<>>
    /\ videos = EmptyMap
    /\ tasks = [t \in 1 .. NumSerial |-> IdleTask]

SerialNext ==
    \/ ProvNext
    \/ \E t \in DOMAIN tasks : Return(t)

SpecSerial == InitSerial /\ [][SerialNext]_vars

(***************************************************************************)
(* Provisioning calls made strictly one after another: a call is invoked   *)
(* only when every earlier one has returned or thrown.                     *)
(***************************************************************************)
Sequential(t) == \A u \in 1 .. (t - 1) : tasks[u].pc \in {"done", "failed"}

InitRetry ==
    /\ connections = EmptyMap
    /\ operationQueue = EmptyMap
    /\ sessions = <<>>
    /\ directory = Rows
    /\ now = StartTime
    /\ calls = [c \in Calls |-> IdleCall]
    /\ remote \in InitialRemotes
    /\ files = EmptyMap
    /\ lastCleanup = StartTime
    /\ requests = <<>>
    /\ videos = EmptyMap
    /\ tasks = [t \in 1 .. NumRetries |-> IdleTask]

RetryNext ==
    \/ \E t \in DOMAIN tasks, u \in Users : Sequential(t) /\ CreateUserDirectory(t, u)
    \/ \E t \in DOMAIN tasks, u \in Users, f \in Folders :
            Sequential(t) /\ CreateUserFolder(t, u, f)
    \/ \E t \in DOMAIN tasks, u \in Users : Sequential(t) /\ CreateCompleteUserStructure(t, u)
    \/ \E t \in DOMAIN tasks, ok \in BOOLEAN, out \in {Echo(EXISTS), Echo(NOT_EXISTS), <<>>} :
            SettleCheck(t, ok, out)
    \/ \E t \in DOMAIN tasks, ok \in BOOLEAN : SettleCreation(t, ok)
    \/ \E t \in DOMAIN tasks, ok \in BOOLEAN, out \in {Echo(EXISTS), Echo(NOT_EXISTS), <<>>} :
            SettleRecheck(t, ok, out)
    \/ Advance

SpecRetry == InitRetry /\ [][RetryNext]_vars

\* Introspection on its own: checkDirectoryExists and the clock.
IntrospectNext ==
    \/ \E t \in DOMAIN tasks, p \in CheckedPaths : CheckDirectoryExists(t, p)
    \/ \E t \in DOMAIN tasks, ok \in BOOLEAN, out \in {Echo(EXISTS), Echo(NOT_EXISTS), <<>>} :
            SettleCheck(t, ok, out)
    \/ Advance

SpecIntrospect == InitProv /\ [][IntrospectNext]_vars

(***************************************************************************)
(* String functions of the introspection methods.  A string is a sequence  *)
(* of pieces (characters, or words that no function looks inside).         *)
(***************************************************************************)
WhiteSpace == {" ", "\n", "\t"}

\* String.prototype.trim.
RECURSIVE TrimStart(_)
TrimStart(s) ==
    IF s # <<>> /\ Head(s) \in WhiteSpace THEN TrimStart(Tail(s)) ELSE s

RECURSIVE TrimEnd(_)
TrimEnd(s) ==
    IF s # <<>> /\ s[Len(s)] \in WhiteSpace THEN TrimEnd(SubSeq(s, 1, Len(s) - 1)) ELSE s

trim(s) == TrimEnd(TrimStart(s))

\* String.prototype.split with the separators given: the pieces between
\* two separators, empty ones included.
RECURSIVE SplitAt(_, _, _)
SplitAt(s, seps, current) ==
    IF s = <<>> THEN <<current>>
    ELSE IF Head(s) \in seps
         THEN <<current>> \o SplitAt(Tail(s), seps, <<>>)
         ELSE SplitAt(Tail(s), seps, Append(current, Head(s)))

split(s, seps) == SplitAt(s, seps, <<>>)

\* split(/\s+/): runs of white space separate.
RECURSIVE DropEmpty(_)
DropEmpty(parts) ==
    IF parts = <<>> THEN <<>>
    ELSE IF Head(parts) = <<>> THEN DropEmpty(Tail(parts))
    ELSE <<Head(parts)>> \o DropEmpty(Tail(parts))

splitWhiteSpace(s) ==
    IF s = <<>> THEN <<<<>>>>
    ELSE LET parts == split(s, WhiteSpace)
         IN (IF Head(parts) = <<>> THEN <<<<>>>> ELSE <<>>)
            \o DropEmpty(parts)
            \o (IF Len(parts) > 1 /\ parts[Len(parts)] = <<>> THEN <<<<>>>> ELSE <<>>)

DigitChars == <<"0", "1", "2", "3", "4", "5", "6", "7", "8", "9">>
IsDigit(ch) == \E d \in 1 .. 10 : DigitChars[d] = ch
DigitValue(ch) == (CHOOSE d \in 1 .. 10 : DigitChars[d] = ch) - 1

\* The decimal text of a natural number.
RECURSIVE Decimal(_)
Decimal(n) ==
    IF n < 10 THEN <<DigitChars[n + 1]>>
    ELSE Append(Decimal(n \div 10), DigitChars[(n % 10) + 1])

\* parseInt: leading white space, an optional sign, then the longest run of
\* digits; NaN when there is no digit there (or no string at all).
NaN == [nan |-> TRUE, value |-> 0]

RECURSIVE DigitsValue(_, _)
DigitsValue(s, acc) ==
    IF s # <<>> /\ IsDigit(Head(s))
    THEN DigitsValue(Tail(s), acc * 10 + DigitValue(Head(s)))
    ELSE acc

parseInt(s) ==
    LET t == TrimStart(s)
        negative == t # <<>> /\ Head(t) = "-"
        digits == IF t # <<>> /\ Head(t) \in {"-", "+"} THEN Tail(t) ELSE t
    IN  IF digits = <<>> \/ ~IsDigit(Head(digits)) THEN NaN
        ELSE [nan |-> FALSE,
              value |-> IF negative THEN 0 - DigitsValue(digits, 0) ELSE DigitsValue(digits, 0)]

\* parseInt(lines[i]) || 0, with lines[i] undefined when the line is missing.
parseIntOrZero(lines, i) ==
    IF i > Len(lines) THEN 0
    ELSE IF parseInt(lines[i]).nan THEN 0 ELSE parseInt(lines[i]).value

\* Math.ceil(a / b) for a natural a and a positive b.
CeilDiv(a, b) == (a + b - 1) \div b

(***************************************************************************)
(* getFolderInfo and getFileInfo.                                          *)
(***************************************************************************)
startsWith(s, prefix) == Len(prefix) <= Len(s) /\ SubSeq(s, 1, Len(prefix)) = prefix

\* The files below a directory, and the directories at or below it.
FilesUnder(path) == {p \in DOMAIN files : startsWith(p, path \o <<"/">>)}
DirectoriesUnder(path) == {p \in remote : p = path \/ startsWith(p, path \o <<"/">>)}

RECURSIVE SumOfSizes(_)
SumOfSizes(paths) ==
    IF paths = {} THEN 0
    ELSE LET p == CHOOSE q \in paths : TRUE
         IN files[p] + SumOfSizes(paths \ {p})

FolderInfoCacheKey(path) == <<"folder_info", "_", ToString(ProvServerId), "_">> \o path

FolderInfoCommand(path) == [kind |-> "folderInfo", path |-> path]

\* The text the remote shell writes for the combined command, line 423:
\* EXISTS, the number of files and the size in bytes, or NOT_EXISTS.
FolderInfoOutput(path) ==
    IF path \in remote
    THEN Echo(EXISTS)
         \o Echo(Decimal(Cardinality(FilesUnder(path))))
         \o Echo(Decimal(SumOfSizes(FilesUnder(path))
                         + 4096 * Cardinality(DirectoriesUnder(path))))
    ELSE Echo(NOT_EXISTS)

\* What the command's stdout can be: the shell's answer, that answer cut
\* after its first line, or nothing at all.
FolderInfoOutputs(path) ==
    {FolderInfoOutput(path), SubSeq(FolderInfoOutput(path), 1, Len(EXISTS) + 1), <<>>}

\* Mutant: the lines are taken from the output as it came, untrimmed.
folderInfoUntrimmed(stdout) ==
    LET lines == split(stdout, {"\n"})
    IN  IF lines[1] = EXISTS
        THEN [exists |-> TRUE,
              file_count |-> parseIntOrZero(lines, 2),
              size_bytes |-> parseIntOrZero(lines, 3),
              size_mb |-> CeilDiv(parseIntOrZero(lines, 3), 1024 * 1024),
              error |-> "none"]
        ELSE [exists |-> FALSE, file_count |-> 0, size_bytes |-> 0, size_mb |-> 0,
              error |-> "none"]

\* The object getFolderInfo builds from the command's stdout, lines 426-449.
folderInfo(stdout) ==
    LET lines == split(trim(stdout), {"\n"})
    IN  IF lines[1] = EXISTS
        THEN [exists |-> TRUE,
              file_count |-> parseIntOrZero(lines, 2),
              size_bytes |-> parseIntOrZero(lines, 3),
              size_mb |-> CeilDiv(parseIntOrZero(lines, 3), 1024 * 1024),
              error |-> "none"]
        ELSE [exists |-> FALSE, file_count |-> 0, size_bytes |-> 0, size_mb |-> 0,
              error |-> "none"]

\* The object the catch block returns, lines 458-465.
FolderInfoFailure(error) == [exists |-> FALSE, error |-> error]

\* Mutant: an entry exactly 15 s old still counts as fresh.
FolderInfoCachedInclusive(path) ==
    /\ MapHas(operationQueue, FolderInfoCacheKey(path))
    /\ now - operationQueue[FolderInfoCacheKey(path)].timestamp <= 15000

FolderInfoCached(path) ==
    /\ MapHas(operationQueue, FolderInfoCacheKey(path))
    /\ now - operationQueue[FolderInfoCacheKey(path)].timestamp < 15000

\* getFolderInfo up to its first await, lines 414-425.
GetFolderInfo(t, path) ==
    /\ LET task == [IdleTask EXCEPT !.op = "getFolderInfo", !.path = path]
       IN Start(t, IF FolderInfoCached(path)
                   THEN [Succeed([task EXCEPT !.skipped = TRUE], "info")
                            EXCEPT !.info = operationQueue[FolderInfoCacheKey(path)].result]
                   ELSE Issue(task, "folderInfo", FolderInfoCommand(path)))
    /\ UNCHANGED <<connections, operationQueue, sessions, directory, now, calls, remote, files, lastCleanup, requests, videos>>

\* getFolderInfo after its command, lines 425-465.
FolderInfoOutcome(task, ok, stdout) ==
    IF ok THEN [Succeed(task, "info") EXCEPT !.info = folderInfo(stdout), !.stdout = stdout]
    ELSE Caught([Succeed(task, "info") EXCEPT !.info = FolderInfoFailure("command")])

\* Mutant: the answer of the catch block is written to the cache as well.
ResolveFolderInfoCachesFailure(t, ok, stdout) ==
    /\ tasks[t].pc = "folderInfo"
    /\ LET task == FolderInfoOutcome(tasks[t], ok, stdout)
       IN /\ tasks' = [tasks EXCEPT ![t] = task]
          /\ operationQueue' =
                MapSet(operationQueue, FolderInfoCacheKey(task.path),
                       [timestamp |-> now, result |-> task.info])
    /\ UNCHANGED <<connections, sessions, directory, now, calls, remote, files, lastCleanup, requests, videos>>

\* The awaited command settles: resolved with some stdout, or rejected.
ResolveFolderInfo(t, ok, stdout) ==
    /\ tasks[t].pc = "folderInfo"
    /\ LET task == FolderInfoOutcome(tasks[t], ok, stdout)
       IN /\ tasks' = [tasks EXCEPT ![t] = task]
          /\ operationQueue' =
                IF ok
                THEN MapSet(operationQueue, FolderInfoCacheKey(task.path),
                            [timestamp |-> now, result |-> task.info])
                ELSE operationQueue
    /\ UNCHANGED <<connections, sessions, directory, now, calls, remote, files, lastCleanup, requests, videos>>

\* The command settles with what the remote shell answers.
SettleFolderInfo(t, ok, stdout) ==
    /\ stdout \in (IF ok THEN FolderInfoOutputs(tasks[t].path) ELSE {<<>>})
    /\ ResolveFolderInfo(t, ok, stdout)

StatCommand(path) == [kind |-> "stat", path |-> path]
LsCommand(path) == [kind |-> "ls", path |-> path]

\* The text of  stat "p" 2>/dev/null && echo "EXISTS" || echo "NOT_EXISTS".
StatOutput(path) ==
    IF path \in DOMAIN files
    THEN <<"  File: ">> \o path \o <<"\n", "  Size: ">> \o Decimal(files[path]) \o <<"\n">>
         \o Echo(EXISTS)
    ELSE IF path \in remote
    THEN <<"  File: ">> \o path \o <<"\n", "  Size: ">> \o Decimal(4096) \o <<"\n">>
         \o Echo(EXISTS)
    ELSE Echo(NOT_EXISTS)

\* The text of  ls -la "p" 2>/dev/null  for a file.
LsOutput(path) ==
    IF path \in DOMAIN files
    THEN <<"-rw-r--r--", " ", "1", " ", "streaming", " ", "streaming", " ">>
         \o Decimal(files[path])
         \o <<" ", "Jan", " ", "1", " ", "00:00", " ">> \o path \o <<"\n">>
    ELSE <<>>

\* extractFileSize, lines 517-524.
extractFileSize(lsOutput) == parseIntOrZero(splitWhiteSpace(trim(lsOutput)), 5)

NoFile == [exists |-> FALSE, size |-> 0]

\* getFileInfo up to its first await, lines 493-496.
EnterFileInfo(path) ==
    Issue([IdleTask EXCEPT !.op = "getFileInfo", !.path = path], "stat", StatCommand(path))

GetFileInfo(t, path) ==
    /\ Start(t, EnterFileInfo(path))
    /\ UNCHANGED <<connections, operationQueue, sessions, directory, now, calls, remote, files, lastCleanup, requests, videos>>

\* Mutant: a failed command is thrown to the caller.
StatOutcomeRethrows(task, ok, stdout) ==
    IF ~ok THEN Fail(task, "command")
    ELSE IF includes(stdout, NOT_EXISTS)
    THEN [Succeed(task, "info") EXCEPT !.info = NoFile, !.stdout = stdout]
    ELSE [Issue(task, "ls", LsCommand(task.path)) EXCEPT !.stdout = stdout]

\* getFileInfo after the stat command, lines 496-502 and the catch.
StatOutcome(task, ok, stdout) ==
    IF ~ok THEN Caught([Succeed(task, "info") EXCEPT !.info = NoFile])
    ELSE IF includes(stdout, NOT_EXISTS)
    THEN [Succeed(task, "info") EXCEPT !.info = NoFile, !.stdout = stdout]
    ELSE [Issue(task, "ls", LsCommand(task.path)) EXCEPT !.stdout = stdout]

SettleStat(t, ok, stdout) ==
    /\ tasks[t].pc = "stat"
    /\ stdout \in (IF ok THEN {StatOutput(tasks[t].path)} ELSE {<<>>})
    /\ tasks' = [tasks EXCEPT ![t] = StatOutcome(tasks[t], ok, stdout)]
    /\ UNCHANGED <<connections, operationQueue, sessions, directory, now, calls, remote, files, lastCleanup, requests, videos>>

\* getFileInfo after the ls command, lines 504-514.  The raw listing and the
\* permission column of the result are left out.
LsOutcome(task, ok, stdout) ==
    IF ok
    THEN [Succeed(task, "info") EXCEPT
            !.info = [exists |-> TRUE, size |-> extractFileSize(stdout)], !.stdout = stdout]
    ELSE Caught([Succeed(task, "info") EXCEPT !.info = NoFile, !.stdout = <<>>])

SettleLs(t, ok, stdout) ==
    /\ tasks[t].pc = "ls"
    /\ stdout \in (IF ok THEN {LsOutput(tasks[t].path)} ELSE {<<>>})
    /\ tasks' = [tasks EXCEPT ![t] = LsOutcome(tasks[t], ok, stdout)]
    /\ UNCHANGED <<connections, operationQueue, sessions, directory, now, calls, remote, files, lastCleanup, requests, videos>>

(***************************************************************************)
(* deleteFile, lines 468-479: one rm -f command; an error is rethrown.     *)
(***************************************************************************)
RmCommand(path) == [kind |-> "rm", path |-> path]

\* deleteFile up to its await, lines 468-471.
EnterDeleteFile(path) ==
    Issue([IdleTask EXCEPT !.op = "deleteFile", !.path = path], "rm", RmCommand(path))

\* deleteFile after its command, lines 471-478.
RmOutcome(task, ok) ==
    IF ok THEN Succeed(task, "success") ELSE Fail(task, "command")

\* rm -f that ran to completion leaves no file at the path.
SettleRm(t, ok) ==
    /\ tasks[t].pc = "rm"
    /\ tasks' = [tasks EXCEPT ![t] = RmOutcome(tasks[t], ok)]
    /\ files' = IF ok THEN MapDelete(files, tasks[t].path) ELSE files
    /\ UNCHANGED <<connections, operationQueue, sessions, directory, now, calls, remote, lastCleanup, requests, videos>>


\* Time that passes between two calls: three cooldown periods at once.
Wait ==
    /\ now + 3 * Tick <= StartTime + MaxTicks * Tick + MaxWaits * 3 * Tick
    /\ now' = now + 3 * Tick
    /\ UNCHANGED <<connections, operationQueue, sessions, directory, calls, remote, tasks, files, lastCleanup, requests, videos>>

\* The files a host can hold when the calls begin: none, or one file in a
\* folder that exists.
InitialFiles(fs) ==
    {EmptyMap} \cup
    {[p \in {q} |-> size] : q \in {r \in FilePaths : dirname(r) \in fs}, size \in FileSizes}

InitLookup ==
    /\ connections = EmptyMap
    /\ operationQueue = EmptyMap
    /\ sessions = <<>>
    /\ directory = Rows
    /\ now = StartTime
    /\ calls = [c \in Calls |-> IdleCall]
    /\ remote \in InitialRemotes
    /\ files \in InitialFiles(remote)
    /\ lastCleanup = StartTime
    /\ requests = <<>>
    /\ videos = EmptyMap
    /\ tasks = [t \in 1 .. NumSerial |-> IdleTask]

FolderPaths == {FolderPath(u, f) : u \in Users, f \in Folders}

\* getFolderInfo calls made one after another while time passes.
FolderInfoNext ==
    \/ \E t \in DOMAIN tasks, p \in FolderPaths : GetFolderInfo(t, p)
    \/ \E t \in DOMAIN tasks, ok \in BOOLEAN, out \in UNION {FolderInfoOutputs(p) : p \in FolderPaths} :
            SettleFolderInfo(t, ok, out)
    \/ \E t \in DOMAIN tasks : Return(t)
    \/ Advance
    \/ Wait

SpecFolderInfo == InitLookup /\ [][FolderInfoNext]_vars

\* checkDirectoryExists calls made one after another while time passes.
DirectoryCheckNext ==
    \/ \E t \in DOMAIN tasks, p \in CheckedPaths : CheckDirectoryExists(t, p)
    \/ \E t \in DOMAIN tasks, ok \in BOOLEAN, out \in {Echo(EXISTS), Echo(NOT_EXISTS), <<>>} :
            SettleCheck(t, ok, out)
    \/ \E t \in DOMAIN tasks : Return(t)
    \/ Advance
    \/ Wait

SpecDirectoryCheck == InitLookup /\ [][DirectoryCheckNext]_vars

\* The three introspection methods, called one after another.
LookupNext ==
    \/ \E t \in DOMAIN tasks, p \in CheckedPaths : CheckDirectoryExists(t, p)
    \/ \E t \in DOMAIN tasks, p \in CheckedPaths : GetFolderInfo(t, p)
    \/ \E t \in DOMAIN tasks, p \in FilePaths : GetFileInfo(t, p)
    \/ \E t \in DOMAIN tasks, ok \in BOOLEAN, out \in {Echo(EXISTS), Echo(NOT_EXISTS), <<>>} :
            SettleCheck(t, ok, out)
    \/ \E t \in DOMAIN tasks, ok \in BOOLEAN, out \in UNION {FolderInfoOutputs(p) : p \in CheckedPaths} :
            SettleFolderInfo(t, ok, out)
    \/ \E t \in DOMAIN tasks, ok \in BOOLEAN, out \in {StatOutput(p) : p \in FilePaths} \cup {<<>>} :
            SettleStat(t, ok, out)
    \/ \E t \in DOMAIN tasks, ok \in BOOLEAN, out \in {LsOutput(p) : p \in FilePaths} \cup {<<>>} :
            SettleLs(t, ok, out)
    \/ \E t \in DOMAIN tasks : Return(t)

SpecLookup == InitLookup /\ [][LookupNext]_vars

\* uploadFile over a pooled session, with checkDirectoryExists and
\* getFileInfo calls made one after another before, during and after it.
InitUploadThenLookup ==
    /\ WarmPool(ProvServerId)
    /\ directory = Rows
    /\ now = StartTime
    /\ calls = [c \in Calls |-> IdleCall]
    /\ remote \in { {HomeDir} \cup {UserDir(u) : u \in Users},
                    {HomeDir} \cup {UserDir(u) : u \in Users} \cup FolderPaths }
    /\ files = EmptyMap
    /\ lastCleanup = StartTime
    /\ requests = <<>>
    /\ videos = EmptyMap
    /\ tasks = [t \in 1 .. NumSerial |-> IdleTask]

UploadThenLookupNext ==
    \/ \E c \in 1 .. NumExec, p \in FilePaths, size \in FileSizes :
            UploadFile(c, ProvServerId, p, size)
    \/ \E c \in Calls : FastQuery(c)
    \/ \E c \in Calls, ok \in BOOLEAN : SftpCallback(c, ok)
    \/ \E c \in Calls, ok \in BOOLEAN : SftpMkdirCallback(c, ok)
    \/ \E c \in Calls, ok \in BOOLEAN : FastPutCallback(c, ok)
    \/ \E c \in Calls, ok \in BOOLEAN : SftpChmodCallback(c, ok)
    \/ \E t \in DOMAIN tasks, p \in FolderPaths : CheckDirectoryExists(t, p)
    \/ \E t \in DOMAIN tasks, p \in FilePaths : GetFileInfo(t, p)
    \/ \E t \in DOMAIN tasks, ok \in BOOLEAN, out \in {Echo(EXISTS), Echo(NOT_EXISTS), <<>>} :
            SettleCheck(t, ok, out)
    \/ \E t \in DOMAIN tasks, ok \in BOOLEAN, out \in {StatOutput(p) : p \in FilePaths} \cup {<<>>} :
            SettleStat(t, ok, out)
    \/ \E t \in DOMAIN tasks, ok \in BOOLEAN, out \in {LsOutput(p) : p \in FilePaths} \cup {<<>>} :
            SettleLs(t, ok, out)
    \/ \E t \in DOMAIN tasks : Return(t)

SpecUploadThenLookup == InitUploadThenLookup /\ [][UploadThenLookupNext]_vars

\* createUserFolder and checkDirectoryExists, called one after another.
FolderThenCheckNext ==
    \/ \E t \in DOMAIN tasks, u \in Users, f \in Folders : CreateUserFolder(t, u, f)
    \/ \E t \in DOMAIN tasks, p \in FolderPaths : CheckDirectoryExists(t, p)
    \/ \E t \in DOMAIN tasks, ok \in BOOLEAN, out \in {Echo(EXISTS), Echo(NOT_EXISTS), <<>>} :
            SettleCheck(t, ok, out)
    \/ \E t \in DOMAIN tasks, ok \in BOOLEAN : SettleCreation(t, ok)
    \/ \E t \in DOMAIN tasks, ok \in BOOLEAN, out \in {Echo(EXISTS), Echo(NOT_EXISTS), <<>>} :
            SettleRecheck(t, ok, out)
    \/ \E t \in DOMAIN tasks : Return(t)
    \/ Advance

SpecFolderThenCheck == InitSerial /\ [][FolderThenCheckNext]_vars

\* checkCompleteUserStructure and checkDirectoryExists calls for the user
\* directories, made strictly one after another.
UserDirs == {UserDir(u) : u \in Users}

StructureCheckNext ==
    \/ \E t \in DOMAIN tasks, u \in Users : Sequential(t) /\ CheckCompleteUserStructure(t, u)
    \/ \E t \in DOMAIN tasks, p \in UserDirs : Sequential(t) /\ CheckDirectoryExists(t, p)
    \/ \E t \in DOMAIN tasks, ok \in BOOLEAN, out \in {Echo(EXISTS), Echo(NOT_EXISTS), <<>>} :
            SettleCheck(t, ok, out)
    \/ Advance

SpecStructureCheck == InitRetry /\ [][StructureCheckNext]_vars

\* checkDirectoryExists and getFolderInfo calls made strictly one after
\* another, over more than half a minute.
\* The cache before the calls: empty, or holding the answer of a
\* getFolderInfo call that completed at StartTime.
InitialCaches ==
    {EmptyMap} \cup
    {[k \in {FolderInfoCacheKey(p)} |->
        [timestamp |-> StartTime, result |-> folderInfo(FolderInfoOutput(p))]] : p \in FolderPaths}

InitRequery ==
    /\ connections = EmptyMap
    /\ remote \in InitialRemotes
    /\ files \in InitialFiles(remote)
    /\ operationQueue \in InitialCaches
    /\ sessions = <<>>
    /\ directory = Rows
    /\ now = StartTime
    /\ calls = [c \in Calls |-> IdleCall]
    /\ lastCleanup = StartTime
    /\ requests = <<>>
    /\ videos = EmptyMap
    /\ tasks = [t \in 1 .. NumRetries |-> IdleTask]

RequeryNext ==
    \/ \E t \in DOMAIN tasks, p \in FolderPaths : Sequential(t) /\ CheckDirectoryExists(t, p)
    \/ \E t \in DOMAIN tasks, p \in FolderPaths : Sequential(t) /\ GetFolderInfo(t, p)
    \/ \E t \in DOMAIN tasks, ok \in BOOLEAN, out \in {Echo(EXISTS), Echo(NOT_EXISTS), <<>>} :
            SettleCheck(t, ok, out)
    \/ \E t \in DOMAIN tasks, ok \in BOOLEAN, out \in UNION {FolderInfoOutputs(p) : p \in FolderPaths} :
            SettleFolderInfo(t, ok, out)
    \/ Advance
    \/ Wait

SpecRequery == InitRequery /\ [][RequeryNext]_vars

\* One getFolderInfo call over every text its command's stdout can hold: up
\* to MaxLines lines, each one of the words and numbers below.
OutputLines == {EXISTS, NOT_EXISTS, <<>>, <<"7">>, <<" ", "7">>, <<"1", "2", "a">>}

RECURSIVE Texts(_)
Texts(n) ==
    IF n = 0 THEN {<<>>}
    ELSE Texts(n - 1) \cup {text \o Echo(line) : text \in Texts(n - 1), line \in OutputLines}

ParseInputs == Texts(MaxLines)

InitParse ==
    /\ connections = EmptyMap
    /\ operationQueue = EmptyMap
    /\ sessions = <<>>
    /\ directory = Rows
    /\ now = StartTime
    /\ calls = [c \in Calls |-> IdleCall]
    /\ remote = {HomeDir}
    /\ files = EmptyMap
    /\ lastCleanup = StartTime
    /\ requests = <<>>
    /\ videos = EmptyMap
    /\ tasks = <<IdleTask>>

ParseNext ==
    \/ \E t \in DOMAIN tasks, p \in FolderPaths : GetFolderInfo(t, p)
    \/ \E t \in DOMAIN tasks, out \in ParseInputs : ResolveFolderInfo(t, TRUE, out)
    \/ \E t \in DOMAIN tasks : ResolveFolderInfo(t, FALSE, <<>>)

SpecParse == InitParse /\ [][ParseNext]_vars

(***************************************************************************)
(* startCacheCleanup, lines 390-402: a timer set at construction fires     *)
(* every 60 s and sweeps the shared map.  The clocks of the specifications *)
(* above stop before the first minute is over, so the timer never fires in *)
(* them.                                                                   *)
(***************************************************************************)
IsCacheKey(key) == key[1] \in {"dir_exists", "folder_info"}

\* Mutant: the comparisons reversed, so the sweep deletes the young entries.
KeptOld(queue, time) ==
    {key \in DOMAIN queue :
        IF IsCacheKey(key)
        THEN ~(time - queue[key].timestamp < 60000)
        ELSE ~(time - queue[key] < cooldownPeriod * 2)}

\* The entries the sweep keeps.
Kept(queue, time) ==
    {key \in DOMAIN queue :
        IF IsCacheKey(key)
        THEN ~(time - queue[key].timestamp > 60000)
        ELSE ~(time - queue[key] > cooldownPeriod * 2)}

\* The callback of setInterval(..., 60000).
CacheCleanup ==
    /\ now >= lastCleanup + 60000
    /\ lastCleanup' = now
    /\ operationQueue' = [key \in Kept(operationQueue, now) |-> operationQueue[key]]
    /\ UNCHANGED <<connections, sessions, directory, now, calls, remote, tasks, files, requests, videos>>

\* Half a minute without a call.
Sleep ==
    /\ now + 6 * Tick <= StartTime + MaxTicks * Tick + MaxWaits * 6 * Tick
    /\ now' = now + 6 * Tick
    /\ UNCHANGED <<connections, operationQueue, sessions, directory, calls, remote, tasks, files,
                   lastCleanup, requests, videos>>

InitCleanup ==
    /\ connections = EmptyMap
    /\ operationQueue = EmptyMap
    /\ sessions = <<>>
    /\ directory = Rows
    /\ now = StartTime
    /\ calls = [c \in Calls |-> IdleCall]
    /\ remote = {HomeDir} \cup {UserDir(u) : u \in Users} \cup FolderPaths
    /\ files = EmptyMap
    /\ lastCleanup = StartTime
    /\ requests = <<>>
    /\ videos = EmptyMap
    /\ tasks = [t \in 1 .. NumSerial |-> IdleTask]

\* Calls that write the three kinds of entries, made one after another
\* over more than a minute, and the sweep.
CleanupNext ==
    \/ \E t \in DOMAIN tasks, u \in Users, f \in Folders : CreateUserFolder(t, u, f)
    \/ \E t \in DOMAIN tasks, p \in FolderPaths : CheckDirectoryExists(t, p)
    \/ \E t \in DOMAIN tasks, p \in FolderPaths : GetFolderInfo(t, p)
    \/ \E t \in DOMAIN tasks, out \in {Echo(EXISTS)} : SettleCheck(t, TRUE, out)
    \/ \E t \in DOMAIN tasks, p \in FolderPaths : SettleFolderInfo(t, TRUE, FolderInfoOutput(p))
    \/ \E t \in DOMAIN tasks : Return(t)
    \/ Advance
    \/ Sleep
    \/ CacheCleanup

SpecCleanup == InitCleanup /\ [][CleanupNext]_vars

\* createUserFolder for logins and folder names that hold the character
\* the operation key is joined with.
KeyUsers == {<<"a">>, <<"a", "_", "b">>}
KeyFolders == {<<"c">>, <<"b", "_", "c">>}

InitKeys ==
    /\ connections = EmptyMap
    /\ operationQueue = EmptyMap
    /\ sessions = <<>>
    /\ directory = Rows
    /\ now = StartTime
    /\ calls = [c \in Calls |-> IdleCall]
    /\ remote = {HomeDir} \cup {UserDir(u) : u \in KeyUsers}
    /\ files = EmptyMap
    /\ lastCleanup = StartTime
    /\ requests = <<>>
    /\ videos = EmptyMap
    /\ tasks = [t \in Tasks |-> IdleTask]

KeysNext ==
    \/ \E t \in DOMAIN tasks, u \in KeyUsers, f \in KeyFolders : CreateUserFolder(t, u, f)
    \/ \E t \in DOMAIN tasks, ok \in BOOLEAN, out \in {Echo(EXISTS), Echo(NOT_EXISTS), <<>>} :
            SettleCheck(t, ok, out)
    \/ \E t \in DOMAIN tasks, ok \in BOOLEAN : SettleCreation(t, ok)
    \/ \E t \in DOMAIN tasks, ok \in BOOLEAN, out \in {Echo(EXISTS), Echo(NOT_EXISTS), <<>>} :
            SettleRecheck(t, ok, out)

SpecKeys == InitKeys /\ [][KeysNext]_vars

(***************************************************************************)
(* The upload and delete routes of routes/videos.js.  A request is served  *)
(* by one async handler; the code between two awaits of an SSHManager call *)
(* is one atomic action, and request r runs its calls in tasks[r] and      *)
(* calls[r].  Database statements outside the table videos are left out.   *)
(***************************************************************************)
IdleRequest ==
    [route |-> "none", pc |-> "idle", userLogin |-> <<>>, folderName |-> <<>>,
     remotePath |-> <<>>,    \* the file's path on the remote host
     size |-> 0,             \* req.file.size, resp. fileSize
     videoId |-> 0,          \* req.params.id, resp. result.insertId
     warned |-> FALSE,       \* the catch of the remote removal has logged
     status |-> 0,           \* res.status(...)
     details |-> "none",     \* the details / message of the response
     serial |-> 0]           \* requests served in this slot so far

Requests == DOMAIN requests

\* A request arrives in a slot whose previous request has been answered.
Accept(r) == requests[r].pc \in {"idle", "answered"} /\ requests[r].serial < MaxRequests

NewRequest(r, route, userLogin) ==
    [IdleRequest EXCEPT !.route = route, !.userLogin = userLogin,
                        !.serial = requests[r].serial + 1]

\* res.status(status).json(...)
Answer(request, status, details) ==
    [request EXCEPT !.pc = "answered", !.status = status, !.details = details]

\* The row the upload route inserts, lines 481-503.
VideoRow(request) ==
    [caminho |-> request.remotePath, tamanho_arquivo |-> request.size,
     codigo_cliente |-> request.userLogin]

\* AUTO_INCREMENT of the table videos.
NextId == Cardinality(DOMAIN videos) + 1

\* POST /upload up to its first SSHManager await, lines 313-430: the folder
\* row is looked up, the quota is tested, createCompleteUserStructure is
\* called.
PostUpload(r, userLogin, folderName, fileName, size, precheck) ==
    /\ Accept(r)
    /\ LET request == [NewRequest(r, "upload", userLogin) EXCEPT
                            !.folderName = folderName, !.size = size,
                            !.remotePath = FilePath(FolderPath(userLogin, folderName), fileName)]
       IN  IF precheck = "noFolder"
           THEN /\ requests' = [requests EXCEPT ![r] = Answer(request, 404, "Pasta nao encontrada")]
                /\ UNCHANGED <<tasks, operationQueue>>
           ELSE IF precheck = "noSpace"
           THEN /\ requests' = [requests EXCEPT ![r] = Answer(request, 400, "Espaco insuficiente")]
                /\ UNCHANGED <<tasks, operationQueue>>
           ELSE /\ requests' = [requests EXCEPT ![r] = [request EXCEPT !.pc = "structure"]]
                /\ tasks' = [tasks EXCEPT ![r] = EnterCompleteUserStructure(userLogin)]
                /\ operationQueue' = CompleteStructureEntered(userLogin)
    /\ UNCHANGED <<connections, sessions, directory, now, calls, remote, files, lastCleanup, videos>>

\* The promise of the awaited call of request r has settled.
TaskSettled(r) == tasks[r].pc \in {"done", "failed"}

\* The outer catch, lines 559-565: status 500 with err.message.
UploadFailed(request, message) == Answer(request, 500, message)

\* Mutant: a failed provisioning step is logged and the handler goes on.
AfterStructureIgnoresFailure(r) ==
    /\ requests' = [requests EXCEPT ![r].pc = "folder"]
    /\ tasks' = [tasks EXCEPT ![r] =
            EnterUserFolder(requests[r].userLogin, requests[r].folderName)]

\* After the await of createCompleteUserStructure, lines 430-435: its
\* rejection leaves through the catch blocks, its result lets the handler
\* call createUserFolder.
AfterStructure(r) ==
    IF tasks[r].pc = "failed"
    THEN /\ requests' = [requests EXCEPT ![r] = UploadFailed(requests[r], tasks[r].error)]
         /\ tasks' = [tasks EXCEPT ![r] = IdleTask]
    ELSE /\ requests' = [requests EXCEPT ![r].pc = "folder"]
         /\ tasks' = [tasks EXCEPT ![r] =
                EnterUserFolder(requests[r].userLogin, requests[r].folderName)]

UploadStructureReturned(r) ==
    /\ requests[r].route = "upload" /\ requests[r].pc = "structure"
    /\ TaskSettled(r)
    /\ AfterStructure(r)
    /\ UNCHANGED <<connections, operationQueue, sessions, directory, now, calls, remote, files, lastCleanup, videos>>

\* After the await of createUserFolder, lines 435-439: uploadFile is called
\* with the file's remote path.
UploadFolderReturned(r) ==
    /\ requests[r].route = "upload" /\ requests[r].pc = "folder"
    /\ TaskSettled(r)
    /\ tasks' = [tasks EXCEPT ![r] = IdleTask]
    /\ IF tasks[r].pc = "failed"
       THEN /\ requests' = [requests EXCEPT ![r] = UploadFailed(requests[r], tasks[r].error)]
            /\ calls' = calls
       ELSE /\ requests' = [requests EXCEPT ![r].pc = "transfer"]
            /\ calls' = [calls EXCEPT ![r] =
                    EnterUploadFile(ProvServerId, requests[r].remotePath, requests[r].size)]
    /\ UNCHANGED <<connections, operationQueue, sessions, directory, now, remote, files, lastCleanup, videos>>

\* After the await of uploadFile, lines 439-558.  What follows the transfer
\* can throw before the INSERT (fs.unlink, the view URL), or after it (the
\* UPDATE of the folder), or run through to status 201.
UploadTransferReturned(r, outcome) ==
    /\ requests[r].route = "upload" /\ requests[r].pc = "transfer"
    /\ calls[r].pc \in {"done", "failed"}
    /\ calls' = [calls EXCEPT ![r] = IdleCall]
    /\ IF calls[r].pc = "failed"
       THEN /\ requests' = [requests EXCEPT ![r] = UploadFailed(requests[r], calls[r].error.kind)]
            /\ videos' = videos
       ELSE IF outcome = "before"
       THEN /\ requests' = [requests EXCEPT ![r] = UploadFailed(requests[r], "local")]
            /\ videos' = videos
       ELSE /\ videos' = MapSet(videos, NextId, VideoRow(requests[r]))
            /\ requests' = [requests EXCEPT ![r] =
                    IF outcome = "after"
                    THEN UploadFailed([requests[r] EXCEPT !.videoId = NextId], "database")
                    ELSE Answer([requests[r] EXCEPT !.videoId = NextId], 201, "none")]
    /\ UNCHANGED <<connections, operationQueue, sessions, directory, now, remote, tasks, files, lastCleanup>>

RouteFileNames == {<<"v.mp4">>}

InitUploadRoute ==
    /\ ColdPool
    /\ directory = Rows
    /\ now = StartTime
    /\ calls = [c \in Calls |-> IdleCall]
    /\ remote \in InitialRemotes
    /\ files = EmptyMap
    /\ lastCleanup = StartTime
    /\ tasks = <<IdleTask>>
    /\ requests = <<IdleRequest>>
    /\ videos = EmptyMap

UploadRouteNext ==
    \/ \E r \in Requests, u \in Users, f \in Folders, n \in RouteFileNames, size \in TransferSizes,
          precheck \in {"ok", "noFolder", "noSpace"} :
            PostUpload(r, u, f, n, size, precheck)
    \/ \E r \in Requests : UploadStructureReturned(r)
    \/ \E r \in Requests : UploadFolderReturned(r)
    \/ \E r \in Requests, outcome \in {"ok", "before", "after"} : UploadTransferReturned(r, outcome)
    \/ \E t \in DOMAIN tasks, ok \in BOOLEAN, out \in {Echo(EXISTS), Echo(NOT_EXISTS), <<>>} :
            SettleCheck(t, ok, out)
    \/ \E t \in DOMAIN tasks, ok \in BOOLEAN : SettleCreation(t, ok)
    \/ \E t \in DOMAIN tasks, ok \in BOOLEAN, out \in {Echo(EXISTS), Echo(NOT_EXISTS), <<>>} :
            SettleRecheck(t, ok, out)
    \/ \E c \in Calls : FastQuery(c)
    \/ \E c \in Calls : MainQueryReuse(c)
    \/ \E c \in Calls : MainQueryConnect(c)
    \/ \E s \in SessionIds : EvReady(s)
    \/ \E s \in SessionIds, withError \in BOOLEAN : TransportFault(s, withError)
    \/ \E s \in SessionIds : EvError(s)
    \/ \E s \in SessionIds : EvClose(s)
    \/ \E c \in Calls, ok \in BOOLEAN : SftpCallback(c, ok)
    \/ \E c \in Calls, ok \in BOOLEAN : SftpMkdirCallback(c, ok)
    \/ \E c \in Calls, ok \in BOOLEAN : FastPutCallback(c, ok)
    \/ \E c \in Calls, ok \in BOOLEAN : SftpChmodCallback(c, ok)
    \/ Advance

SpecUploadRoute == InitUploadRoute /\ [][UploadRouteNext]_vars

(***************************************************************************)
(* DELETE /:id, routes/videos.js lines 814-891.                            *)
(***************************************************************************)
RouteUsers == Users \cup {<<"bob">>}

\* caminho.startsWith('/home/streaming') ? caminho : `/home/streaming/${caminho}`
RemotePathOf(caminho) ==
    IF startsWith(caminho, HomeDir) THEN caminho ELSE HomeDir \o <<"/">> \o caminho

\* The step after the ownership check: getFileInfo when the row holds no
\* size, deleteFile at once when it does, lines 842-859.
PastOwnership(request) ==
    IF request.size = 0
    THEN [pc |-> "fileInfo", task |-> EnterFileInfo(request.remotePath)]
    ELSE [pc |-> "deleteFile", task |-> EnterDeleteFile(request.remotePath)]

\* The handler up to its first SSHManager await, lines 814-859.  lookup is
\* the outcome of the SELECT of the server's id, lines 836-840.
DeleteVideo(r, videoId, userLogin, lookup) ==
    /\ Accept(r)
    /\ LET request == [NewRequest(r, "delete", userLogin) EXCEPT !.videoId = videoId]
           found == /\ videoId \in DOMAIN videos
                    /\ videos[videoId].codigo_cliente = userLogin
       IN  IF ~found
           THEN /\ requests' = [requests EXCEPT ![r] = Answer(request, 404, "Video nao encontrado")]
                /\ tasks' = tasks
           ELSE IF ~includes(videos[videoId].caminho, <<"/">> \o userLogin \o <<"/">>)
           THEN /\ requests' = [requests EXCEPT ![r] = Answer(request, 403, "Acesso negado")]
                /\ tasks' = tasks
           ELSE IF lookup = "fails"
           THEN /\ requests' = [requests EXCEPT ![r] = Answer(request, 500, "database")]
                /\ tasks' = tasks
           ELSE LET owned == [request EXCEPT
                                !.size = videos[videoId].tamanho_arquivo,
                                !.remotePath = RemotePathOf(videos[videoId].caminho)]
                IN /\ requests' = [requests EXCEPT ![r] =
                            [owned EXCEPT !.pc = PastOwnership(owned).pc]]
                   /\ tasks' = [tasks EXCEPT ![r] = PastOwnership(owned).task]
    /\ UNCHANGED <<connections, operationQueue, sessions, directory, now, calls, remote, files, lastCleanup, videos>>

\* After the await of getFileInfo, lines 850-859: the size is taken from
\* its answer and deleteFile is called.
DeleteInfoReturned(r) ==
    /\ requests[r].route = "delete" /\ requests[r].pc = "fileInfo"
    /\ TaskSettled(r)
    /\ requests' = [requests EXCEPT ![r] =
            [requests[r] EXCEPT
                !.pc = "deleteFile",
                !.size = IF tasks[r].pc = "done" /\ tasks[r].info.exists
                         THEN tasks[r].info.size ELSE 0]]
    /\ tasks' = [tasks EXCEPT ![r] = EnterDeleteFile(requests[r].remotePath)]
    /\ UNCHANGED <<connections, operationQueue, sessions, directory, now, calls, remote, files, lastCleanup, videos>>

\* DELETE FROM videos, UPDATE folders and the answer, lines 873-887.  A
\* database statement that throws leaves through the catch of lines 888-891.
RemoveRecord(r, request, outcome) ==
    /\ videos' = IF outcome = "delete" THEN videos ELSE MapDelete(videos, request.videoId)
    /\ requests' = [requests EXCEPT ![r] =
            IF outcome = "ok"
            THEN Answer(request, 200, "Video removido com sucesso")
            ELSE Answer(request, 500, "database")]

\* Mutant: the error of the remote removal reaches the outer catch.
AfterRemovalRethrows(r, outcome) ==
    IF tasks[r].pc = "failed"
    THEN /\ videos' = videos
         /\ requests' = [requests EXCEPT ![r] = Answer(requests[r], 500, tasks[r].error)]
    ELSE RemoveRecord(r, requests[r], outcome)

\* After the await of deleteFile, lines 857-887: its error is caught and
\* logged (lines 869-871), then the record is removed.
AfterRemoval(r, outcome) ==
    RemoveRecord(r, [requests[r] EXCEPT !.warned = (tasks[r].pc = "failed")], outcome)

DeleteFileReturned(r, outcome) ==
    /\ requests[r].route = "delete" /\ requests[r].pc = "deleteFile"
    /\ TaskSettled(r)
    /\ AfterRemoval(r, outcome)
    /\ tasks' = [tasks EXCEPT ![r] = IdleTask]
    /\ UNCHANGED <<connections, operationQueue, sessions, directory, now, calls, remote, files, lastCleanup>>

\* The table before the requests: a row with the file's size, a row without
\* one, a row with a relative path, and a row of another client's account
\* whose path lies in alice's directory.
RowOf(caminho, size, owner) ==
    [caminho |-> caminho, tamanho_arquivo |-> size, codigo_cliente |-> owner]

InitialVideos ==
    LET path == FilePath(FolderPath(<<"alice">>, <<"clips">>), <<"v.mp4">>)
    IN  <<RowOf(path, 2048, <<"alice">>),
          RowOf(path, 0, <<"alice">>),
          RowOf(<<"alice", "/", "clips", "/", "v.mp4">>, 0, <<"alice">>),
          RowOf(path, 2048, <<"bob">>)>>

InitDeleteRoute ==
    /\ connections = EmptyMap
    /\ operationQueue = EmptyMap
    /\ sessions = <<>>
    /\ directory = Rows
    /\ now = StartTime
    /\ calls = [c \in Calls |-> IdleCall]
    /\ remote = {HomeDir} \cup {UserDir(u) : u \in Users} \cup FolderPaths
    /\ files \in InitialFiles(remote)
    /\ lastCleanup = StartTime
    /\ tasks = <<IdleTask>>
    /\ requests = <<IdleRequest>>
    /\ videos = InitialVideos

DeleteRouteNext ==
    \/ \E r \in Requests, id \in DOMAIN InitialVideos, u \in RouteUsers, lookup \in {"ok", "fails"} :
            DeleteVideo(r, id, u, lookup)
    \/ \E r \in Requests : DeleteInfoReturned(r)
    \/ \E r \in Requests, outcome \in {"ok", "delete", "update"} : DeleteFileReturned(r, outcome)
    \/ \E t \in DOMAIN tasks, ok \in BOOLEAN :
            \E out \in {StatOutput(tasks[t].path), <<>>} : SettleStat(t, ok, out)
    \/ \E t \in DOMAIN tasks, ok \in BOOLEAN :
            \E out \in {LsOutput(tasks[t].path), <<>>} : SettleLs(t, ok, out)
    \/ \E t \in DOMAIN tasks, ok \in BOOLEAN : SettleRm(t, ok)

SpecDeleteRoute == InitDeleteRoute /\ [][DeleteRouteNext]_vars

(***************************************************************************)
(* Properties.                                                             *)
(***************************************************************************)
GetConnectionCalls == {c \in Calls : calls[c].op = "getConnection"}
Completed(c) == calls[c].pc \in {"done", "failed"}
Outcome(c) == <<calls[c].pc, calls[c].conn, calls[c].error.kind>>

\* The session that server id's host:port has, read from the directory row.
SameEndpoint(s, id) ==
    /\ sessions[s].server.ip = directory[id].ip
    /\ sessions[s].server.porta_ssh = directory[id].porta_ssh

HasActiveRow(id) == id \in DOMAIN directory /\ directory[id].status = "ativo"

Pooled(s) == \E k \in DOMAIN connections : connections[k] = s

\* The call awaits the handshake of a Client of its own.
Handshaking(c) == calls[c].pc = "connecting"

\* C1: getConnection calls for the same host:port that overlap while the
\* pool holds no session for it perform exactly one handshake: any two calls
\* that await a handshake for the same endpoint await the same one.
C1_OneHandshake ==
    \A c, d \in Calls :
        (/\ Handshaking(c) /\ Handshaking(d)
         /\ sessions[calls[c].sess].key = sessions[calls[d].sess].key)
        => calls[c].sess = calls[d].sess

\* C2: getConnection calls for the same endpoint that overlap observe the
\* same outcome.  Two completed calls that each started a handshake for the
\* same endpoint, while no session of that endpoint was ever lost or closed,
\* did overlap (the second would otherwise have found the first's session
\* in the pool); they must have the same session or the same failure.
C2_SameOutcome ==
    \A c, d \in GetConnectionCalls :
        (/\ Completed(c) /\ Completed(d)
         /\ calls[c].sess # NoSession /\ calls[d].sess # NoSession
         /\ sessions[calls[c].sess].key = sessions[calls[d].sess].key
         /\ \A s \in SessionIds :
                sessions[s].key = sessions[calls[c].sess].key => ~Terminal(s))
        => Outcome(c) = Outcome(d)

\* C3: in every reachable state there is at most one live session per
\* host:port.
C3_AtMostOneLive ==
    \A s, t \in SessionIds :
        (Live(s) /\ Live(t) /\ sessions[s].key = sessions[t].key) => s = t

\* A getConnection call returns in this step.
Returns(c) == calls[c].pc \in {"fastQuery", "mainQuery", "connecting"} /\ calls'[c].pc = "done"

\* C4: getConnection never returns a session whose socket is destroyed, on
\* any path, the cooldown fast path included.
C4_NeverReturnsDead ==
    [][\A c \in Calls : Returns(c) => ~sessions'[calls'[c].conn].destroyed]_vars

\* The error event, resp. the close event, of session s is handled in this step.
ErrorHandled(s) == sessions[s].errPending /\ ~sessions'[s].errPending
CloseHandled(s) == ~sessions[s].closed /\ sessions'[s].closed

\* C5: the handler of a transport close event and the handler of a transport
\* error event each remove the session from the pool in the same step.
C5_EventsEvict ==
    [][\A s \in SessionIds :
        (ErrorHandled(s) \/ CloseHandled(s))
        => \A k \in DOMAIN connections' : connections'[k] # s]_vars

\* C6: a session that is Lost or Closed is terminal: no getConnection call
\* that returns afterwards returns it.
C6_TerminalNotReturned ==
    [][\A c \in Calls : Returns(c) => ~Terminal(calls'[c].conn)]_vars

\* C7: getConnection for a server id with no row or an inactive row fails
\* with the endpoint-unavailable error, creates no Client, starts no
\* handshake and leaves the pool unchanged.
C7_UnavailableFailsClean ==
    /\ [](\A c \in Calls :
            (calls[c].pc # "idle" /\ ~HasActiveRow(calls[c].serverId))
            => /\ calls[c].pc \in {"fastQuery", "mainQuery", "failed"}
               /\ calls[c].sess = NoSession /\ calls[c].conn = NoSession
               /\ calls[c].pc = "failed" => calls[c].error = EndpointUnavailable)
    /\ [][\A c \in Calls :
            (/\ ~HasActiveRow(calls'[c].serverId)
             /\ calls'[c] # calls[c])
            => /\ connections' = connections
               /\ sessions' = sessions
               /\ calls[c].pc = "mainQuery" => calls'[c].pc = "failed"]_vars

C7_Witness ==
    \E c, d \in Calls :
        /\ calls[c].pc = "failed" /\ calls[c].serverId = 3
        /\ calls[d].pc = "failed" /\ calls[d].serverId = 4
        /\ calls[c].error = EndpointUnavailable
        /\ calls[d].error = EndpointUnavailable

\* C8: under fair delivery every getConnection call eventually completes.
C8_Completes ==
    \A c \in Calls : (calls[c].pc # "idle") ~> Completed(c)

\* An established session of another logical id on the same host:port is in the pool.
SharedBy(c) ==
    {s \in SessionIds :
        /\ Pooled(s) /\ Live(s)
        /\ sessions[s].serverId # calls[c].serverId
        /\ SameEndpoint(s, calls[c].serverId)}

\* C9: two logical ids with the same host:port share one pooled session:
\* once a session is established through id a, getConnection(b) returns that
\* session and starts no second handshake.
C9_SharedSession ==
    [][\A c \in Calls :
        (/\ calls[c].pc = "mainQuery" /\ calls'[c] # calls[c]
         /\ HasActiveRow(calls[c].serverId)
         /\ SharedBy(c) # {})
        => /\ calls'[c].pc = "done"
           /\ calls'[c].conn \in SharedBy(c)
           /\ sessions' = sessions]_vars

C9_Witness ==
    \E c \in Calls :
        /\ calls[c].pc = "done" /\ calls[c].sess = NoSession
        /\ calls[c].conn # NoSession
        /\ sessions[calls[c].conn].serverId # calls[c].serverId
        /\ Len(sessions) = 1

\* C10: executeCommand resolves with {stdout, stderr, code} exactly when the
\* exit code is 0 and fails with an error carrying the exit code and the
\* captured stderr for every other exit code; `false` fails with code 1.
C10_ExitCodeDecides ==
    /\ [](\A c \in Calls :
            /\ (calls[c].pc = "done" /\ calls[c].op = "executeCommand")
                => /\ calls[c].exit = 0
                   /\ calls[c].result.success
                   /\ calls[c].result.code = 0
            /\ calls[c].exit \notin {NoExit, 0}
                => /\ calls[c].pc = "failed"
                   /\ calls[c].error.code = calls[c].exit
            /\ calls[c].exit = 0 => calls[c].pc = "done"
            /\ (calls[c].command = "false" /\ calls[c].exit # NoExit)
                => calls[c].pc = "failed" /\ calls[c].error.code \in {1, NoCode})
    /\ [][\A c \in Calls :
            (calls[c].pc = "streaming" /\ calls'[c].pc # "streaming")
            => /\ calls'[c].exit # NoExit
               /\ calls'[c].pc = "done"
                    => /\ calls'[c].result.stdout = calls[c].stdout
                       /\ calls'[c].result.stderr = calls[c].stderr
               /\ calls'[c].pc = "failed"
                    => calls'[c].error.stderr = calls[c].stderr]_vars

C10_Witness ==
    \E c \in Calls :
        /\ calls[c].command = "false" /\ calls[c].pc = "failed"
        /\ calls[c].error.code = 1
        /\ calls[c].error.stderr # <<>>

\* A command or transfer that is in flight on its session.
InFlight(c) ==
    calls[c].pc \in {"execOpen", "streaming", "sftpOpen", "sftpMkdir", "fastPut", "sftpChmod"}

\* In flight with remote work still to do: the channel not yet open, or the
\* file's bytes not yet transferred.
Unfinished(c) == calls[c].pc \in {"execOpen", "sftpOpen", "sftpMkdir", "fastPut"}

\* The session the call runs on is lost (transport error or close).
SessionLost(c) == calls[c].conn # NoSession /\ sessions[calls[c].conn].destroyed

ProvisioningOps == {"createUserDirectory", "createUserFolder", "createCompleteUserStructure"}

\* The operation key of a provisioning call.
OwnKey(task) ==
    CASE task.op = "createUserDirectory" -> UserDirectoryKey(task.userLogin)
      [] task.op = "createUserFolder" -> UserFolderKey(task.userLogin, task.folderName)
      [] task.op = "createCompleteUserStructure" -> CompleteStructureKey(task.userLogin)

\* Task t is invoked in this step.
Invoked(t) == tasks[t].pc = "idle" /\ tasks'[t].pc # "idle"

\* C12: a provisioning call made while its operation key has a cooldown
\* entry younger than 5 s returns success at once, with no remote command
\* issued and no delegate invoked; a call made when the entry is 5 s old or
\* older is not skipped (it issues its existence check, or for
\* createCompleteUserStructure invokes its delegate).
C12_CooldownSkip ==
    [][\A t \in DOMAIN tasks :
        (Invoked(t) /\ tasks'[t].op \in ProvisioningOps /\ MapHas(operationQueue, OwnKey(tasks'[t])))
        => IF now - operationQueue[OwnKey(tasks'[t])] < 5000
           THEN /\ tasks'[t].pc = "done" /\ tasks'[t].result = "success"
                /\ tasks'[t].skipped
                /\ tasks'[t].issued = <<>> /\ tasks'[t].delegations = 0
                /\ operationQueue' = operationQueue /\ remote' = remote
           ELSE /\ ~tasks'[t].skipped
                /\ tasks'[t].op = "createCompleteUserStructure" => tasks'[t].delegations = 1
                /\ tasks'[t].op # "createCompleteUserStructure"
                    => tasks'[t].pc = "check" /\ Len(tasks'[t].issued) = 1]_vars

C12_Witness ==
    \E t \in DOMAIN tasks :
        /\ tasks[t].op = "createUserFolder" /\ tasks[t].skipped
        /\ tasks[t].pc = "done" /\ tasks[t].issued = <<>>
        /\ remote = {HomeDir}

\* C13: of two createUserFolder calls with identical (server, user, folder)
\* issued within 5 s of each other only the first performs remote commands;
\* the second returns success with no network activity.  (Stated for the
\* pairs made before the clock first advances: they are 0 s apart.)
C13_SecondIsSkipped ==
    [][\A t1, t2 \in DOMAIN tasks :
        (/\ t1 # t2 /\ now = StartTime
         /\ tasks[t1].op = "createUserFolder"
         /\ Invoked(t2) /\ tasks'[t2].op = "createUserFolder"
         /\ tasks'[t2].userLogin = tasks[t1].userLogin
         /\ tasks'[t2].folderName = tasks[t1].folderName)
        => /\ tasks'[t2].issued = <<>>
           /\ tasks'[t2].pc = "done" /\ tasks'[t2].result = "success"]_vars

\* C14: a cooldown entry for a createUserDirectory key is recorded only
\* when the base directory exists on the remote host (it was observed
\* present or its mkdir completed); directories are never removed here, so
\* whenever the entry is there the directory is, and no skip is served for
\* a directory that no call has seen or made exist.
C14_EntryMeansDirectory ==
    /\ \A u \in Users :
        MapHas(operationQueue, UserDirectoryKey(u)) => UserDir(u) \in remote
    /\ \A t \in DOMAIN tasks :
        (tasks[t].op = "createUserDirectory" /\ tasks[t].skipped)
        => UserDir(tasks[t].userLogin) \in remote

\* C15: a createUserDirectory whose existence check reports the user
\* directory present issues no creation command (its only command is the
\* check) and returns success; calls repeated on the existing directory
\* therefore leave the remote host as it was.
C15_ExistingDirectoryUntouched ==
    \A t \in DOMAIN tasks :
        (/\ tasks[t].op = "createUserDirectory"
         /\ tasks[t].stdout = Echo(EXISTS))
        => /\ UserDir(tasks[t].userLogin) \in remote
           /\ tasks[t].pc = "done" /\ tasks[t].result = "success"
           /\ tasks[t].issued = <<TestCommand(UserDir(tasks[t].userLogin))>>

C15_Witness ==
    \E t \in DOMAIN tasks :
        /\ tasks[t].op = "createUserDirectory" /\ tasks[t].pc = "done"
        /\ tasks[t].stdout = Echo(EXISTS)
        /\ now = StartTime + Tick
        /\ operationQueue[UserDirectoryKey(tasks[t].userLogin)] = now
        /\ remote = {HomeDir, UserDir(tasks[t].userLogin)}

IsPrefix(s, q) == Len(s) <= Len(q) /\ SubSeq(q, 1, Len(s)) = s

\* C16: when the existence check of a createUserDirectory reports the base
\* directory absent (output NOT_EXISTS) the call issues the creation
\* commands one at a time in the order mkdir base, mkdir recordings, mkdir
\* logos, chown, chmod, and has issued all of them when it is done.
C16_AbsentIsCreated ==
    \A t \in DOMAIN tasks :
        (/\ tasks[t].op = "createUserDirectory"
         /\ tasks[t].stdout = Echo(NOT_EXISTS))
        => LET userDir == UserDir(tasks[t].userLogin)
               all == <<TestCommand(userDir)>> \o UserDirectoryCommands(userDir)
           IN /\ Len(tasks[t].issued) >= 2
              /\ IsPrefix(tasks[t].issued, all)
              /\ tasks[t].pc = "done" => tasks[t].issued = all

\* C17: a chown or chmod command of createUserDirectory or createUserFolder
\* that fails is not propagated: whether it resolved or rejected, the call
\* goes on to the same next step (the next command, the final check, or
\* success) and does not fail.
C17_PermissionFailureIgnored ==
    [][\A t \in DOMAIN tasks :
        (/\ tasks[t].op \in {"createUserDirectory", "createUserFolder"}
         /\ tasks[t].pc = "create"
         /\ tasks[t].command.kind \in {"chown", "chmod"}
         /\ tasks'[t] # tasks[t])
        => LET commands == CreationCommands(tasks[t])
               step == tasks[t].step
           IN /\ tasks'[t].pc # "failed"
              /\ remote' = remote
              /\ IF step < Len(commands)
                 THEN /\ tasks'[t].pc = "create"
                      /\ tasks'[t].issued = Append(tasks[t].issued, commands[step + 1])
                 ELSE IF tasks[t].op = "createUserFolder"
                 THEN /\ tasks'[t].pc = "recheck"
                      /\ tasks'[t].issued = Append(tasks[t].issued, TestCommand(TargetPath(tasks[t])))
                 ELSE /\ tasks'[t].pc = "done" /\ tasks'[t].result = "success"
                      /\ tasks'[t].issued = tasks[t].issued]_vars

C17_Witness ==
    \E t \in DOMAIN tasks :
        /\ tasks[t].op = "createUserDirectory"
        /\ tasks[t].caught = "chown"
        /\ tasks[t].pc = "create" /\ tasks[t].command.kind = "chmod"

\* C18: a non-skipped createUserFolder returns success only if the target
\* folder exists on the remote host (directories are never removed here, so
\* a folder absent now was absent at the call's last check), and never after
\* a check whose output was NOT_EXISTS.
C18_SuccessMeansFolder ==
    \A t \in DOMAIN tasks :
        (/\ tasks[t].op = "createUserFolder" /\ ~tasks[t].skipped
         /\ tasks[t].pc = "done")
        => /\ FolderPath(tasks[t].userLogin, tasks[t].folderName) \in remote
           /\ tasks[t].stdout # Echo(NOT_EXISTS)

\* C19: a non-skipped createCompleteUserStructure invokes createUserDirectory
\* exactly once; when it returns success the delegate has returned success
\* (it recorded its key now, or was inside its cooldown) and the call's own
\* key is recorded now; while it runs and when it fails its own key is left
\* as it was.
C19_DelegatesOnce ==
    [][\A t \in DOMAIN tasks :
        (tasks'[t].op = "createCompleteUserStructure" /\ tasks'[t] # tasks[t]
         /\ ~tasks'[t].skipped)
        => LET own == CompleteStructureKey(tasks'[t].userLogin)
               delegate == UserDirectoryKey(tasks'[t].userLogin)
           IN /\ tasks'[t].delegations = 1
              /\ tasks'[t].pc = "done"
                    => /\ tasks'[t].result = "success"
                       /\ MapHas(operationQueue', own) /\ operationQueue'[own] = now
                       /\ MapHas(operationQueue', delegate)
                       /\ \/ operationQueue'[delegate] = now
                          \/ /\ MapHas(operationQueue, delegate)
                             /\ now - operationQueue[delegate] < cooldownPeriod
              /\ tasks'[t].pc # "done"
                    => /\ MapHas(operationQueue', own) = MapHas(operationQueue, own)
                       /\ MapHas(operationQueue, own)
                            => operationQueue'[own] = operationQueue[own]]_vars

\* A call whose delegate failed, after an earlier call had succeeded.
C19_Witness ==
    \E t \in DOMAIN tasks :
        /\ tasks[t].op = "createCompleteUserStructure" /\ tasks[t].pc = "failed"
        /\ tasks[t].delegations = 1
        /\ now = StartTime + Tick
        /\ MapHas(operationQueue, CompleteStructureKey(tasks[t].userLogin))
        /\ operationQueue[CompleteStructureKey(tasks[t].userLogin)] = StartTime

\* C20: a checkDirectoryExists call that is not served from the cache
\* returns true when the remote check reports the directory present (output
\* EXISTS) and false when it reports it absent (output NOT_EXISTS).
C20_ReportsTheCheck ==
    \A t \in DOMAIN tasks :
        (/\ tasks[t].op = "checkDirectoryExists" /\ ~tasks[t].skipped
         /\ tasks[t].pc = "done")
        => /\ tasks[t].stdout = Echo(EXISTS) => tasks[t].result = "true"
           /\ tasks[t].stdout = Echo(NOT_EXISTS) => tasks[t].result = "false"

\* C21: a getFolderInfo call made less than 15 s after a result was stored
\* for its (server, path) returns that result unchanged and issues no remote
\* command; a call made 15 s or more after it (or with nothing stored) issues
\* the combined command, and when that command's answer arrives the entry is
\* replaced by the new result, stamped with the time of arrival.
C21_FolderInfoCache ==
    [][\A t \in DOMAIN tasks :
        LET key == FolderInfoCacheKey(tasks'[t].path)
        IN /\ (Invoked(t) /\ tasks'[t].op = "getFolderInfo") =>
                IF MapHas(operationQueue, key) /\ now - operationQueue[key].timestamp < 15000
                THEN /\ tasks'[t].pc = "done"
                     /\ tasks'[t].info = operationQueue[key].result
                     /\ tasks'[t].issued = <<>>
                     /\ operationQueue' = operationQueue
                ELSE /\ tasks'[t].pc = "folderInfo"
                     /\ tasks'[t].issued = <<FolderInfoCommand(tasks'[t].path)>>
           /\ (/\ tasks[t].pc = "folderInfo" /\ tasks'[t].pc = "done"
               /\ tasks'[t].info.error = "none") =>
                operationQueue'[key] = [timestamp |-> now, result |-> tasks'[t].info]
      ]_vars

\* A call served from an entry that is 5 s old.
C21_Witness ==
    \E t \in DOMAIN tasks :
        /\ tasks[t].op = "getFolderInfo" /\ tasks[t].skipped
        /\ now - operationQueue[FolderInfoCacheKey(tasks[t].path)].timestamp = Tick

\* C22: a checkDirectoryExists call made less than 30 s after a result was
\* stored for its (server, path) returns the stored boolean and issues no
\* remote command; a call made 30 s or more after it (or with nothing
\* stored) issues the existence check.
C22_DirectoryCache ==
    [][\A t \in DOMAIN tasks :
        LET key == DirExistsCacheKey(tasks'[t].path)
        IN (Invoked(t) /\ tasks'[t].op = "checkDirectoryExists") =>
                IF MapHas(operationQueue, key) /\ now - operationQueue[key].timestamp < 30000
                THEN /\ tasks'[t].pc = "done"
                     /\ tasks'[t].result = BoolResult(operationQueue[key].result)
                     /\ tasks'[t].issued = <<>>
                     /\ operationQueue' = operationQueue
                ELSE /\ tasks'[t].pc = "check"
                     /\ tasks'[t].issued = <<TestCommand(tasks'[t].path)>>
      ]_vars

\* A call served from an entry that is 20 s old.
C22_Witness ==
    \E t \in DOMAIN tasks :
        /\ tasks[t].op = "checkDirectoryExists" /\ tasks[t].skipped
        /\ now - operationQueue[DirExistsCacheKey(tasks[t].path)].timestamp = 4 * Tick

\* C23: a checkDirectoryExists on /home/streaming/<user>/<folder> invoked
\* less than 30 s after a createUserFolder for that user and folder has
\* succeeded (the success is what wrote the folder's cooldown entry) returns
\* true at once, without issuing the existence check.
C23_CreatedFolderIsKnown ==
    [][\A t \in DOMAIN tasks, u \in Users, f \in Folders :
        (/\ Invoked(t) /\ tasks'[t].op = "checkDirectoryExists"
         /\ tasks'[t].path = FolderPath(u, f)
         /\ MapHas(operationQueue, UserFolderKey(u, f))
         /\ now - operationQueue[UserFolderKey(u, f)] < 30000)
        => /\ tasks'[t].pc = "done"
           /\ tasks'[t].result = "true"
           /\ tasks'[t].issued = <<>>
      ]_vars

UploadCalls == {c \in Calls : calls[c].op = "uploadFile"}
Ran(c, step, ok) == MapHas(calls[c].sftpLog, step) /\ calls[c].sftpLog[step] = ok

\* C25: an uploadFile call that has settled returned success exactly when
\* its byte transfer completed (and then the destination holds the whole
\* local file); a transfer that failed made the call fail; neither the
\* outcome of the parent-directory creation nor that of the permission step
\* has a say.
C25_SuccessIsTheTransfer ==
    \A c \in UploadCalls :
        /\ calls[c].pc = "done" =>
                /\ Ran(c, "fastPut", TRUE)
                /\ calls[c].result.success
                /\ calls[c].error = NoError
        /\ calls[c].pc = "failed" =>
                /\ ~Ran(c, "fastPut", TRUE)
                /\ ~calls[c].result.success
        /\ Ran(c, "fastPut", FALSE) => calls[c].pc = "failed"
        /\ Ran(c, "fastPut", TRUE) =>
                /\ calls[c].pc \in {"sftpChmod", "done"}
                /\ MapHas(files, calls[c].remotePath)
                /\ files[calls[c].remotePath] = calls[c].localSize

\* A call that returned success although both the directory creation and
\* the permission step failed.
C25_Witness ==
    \E c \in UploadCalls :
        /\ calls[c].pc = "done"
        /\ Ran(c, "mkdir", FALSE) /\ Ran(c, "chmod", FALSE)
        /\ calls[c].result.success

\* C26: within one uploadFile call the sftp steps run in the order mkdir,
\* fastPut, chmod, each after the callback of the one before: the transfer
\* is in progress only once the mkdir attempt has completed (with either
\* result), the permission step is in progress only once the transfer has
\* succeeded, and no permission step follows a failed transfer.
C26_StepsInOrder ==
    \A c \in UploadCalls :
        LET ran == DOMAIN calls[c].sftpLog
        IN /\ ran \in {{}, {"mkdir"}, {"mkdir", "fastPut"}, {"mkdir", "fastPut", "chmod"}}
           /\ calls[c].pc = "sftpMkdir" => ran = {}
           /\ calls[c].pc = "fastPut" => ran = {"mkdir"}
           /\ calls[c].pc = "sftpChmod" => ran = {"mkdir", "fastPut"} /\ Ran(c, "fastPut", TRUE)
           /\ "chmod" \in ran => Ran(c, "fastPut", TRUE)
           /\ Ran(c, "fastPut", FALSE) => "chmod" \notin ran /\ calls[c].pc = "failed"

\* The permission step is in progress after a failed mkdir and a
\* completed transfer.
C26_Witness ==
    \E c \in UploadCalls :
        /\ calls[c].pc = "sftpChmod"
        /\ Ran(c, "mkdir", FALSE) /\ Ran(c, "fastPut", TRUE)

\* An uploadFile call to the destination has returned success.
Uploaded(c) == calls[c].op = "uploadFile" /\ calls[c].pc = "done"

\* After a successful upload, a checkDirectoryExists on the destination
\* directory that is answered from the cache answers true.
C24_DirectoryFromCache ==
    [][\A t \in DOMAIN tasks, c \in Calls :
        (/\ Uploaded(c) /\ Invoked(t)
         /\ tasks'[t].op = "checkDirectoryExists"
         /\ tasks'[t].path = dirname(calls[c].remotePath)
         /\ tasks'[t].skipped)
        => tasks'[t].result = "true"
      ]_vars

\* After a successful upload, a lookup of the destination whose remote
\* command was answered reports existence, and getFileInfo the size of the
\* local file.
C24_FreshLookup ==
    [][\A t \in DOMAIN tasks, c \in Calls :
        (/\ Uploaded(c)
         /\ tasks[t].pc \in {"check", "stat", "ls"} /\ tasks'[t].pc = "done"
         /\ tasks'[t].stdout # <<>>)
        => /\ (/\ tasks[t].op = "checkDirectoryExists"
               /\ tasks[t].path = dirname(calls[c].remotePath))
              => tasks'[t].result = "true"
           /\ (/\ tasks[t].op = "getFileInfo"
               /\ tasks[t].path = calls[c].remotePath)
              => tasks'[t].info = [exists |-> TRUE, size |-> calls[c].localSize]
      ]_vars

\* C24: after uploadFile has succeeded for a destination, a following
\* checkDirectoryExists on the destination directory returns true, whether
\* it is answered from the cache (whatever earlier calls stored there) or
\* by the remote host, and a following getFileInfo on the destination file
\* reports that it exists with the local file's size.
C24_UploadIsVisible == C24_DirectoryFromCache /\ C24_FreshLookup

LookupOps == {"checkDirectoryExists", "getFolderInfo", "getFileInfo"}

\* C27: checkDirectoryExists, getFolderInfo and getFileInfo never throw:
\* no call of theirs ends as a failure, and a call whose remote command
\* failed (no active server row, no session, channel error or non-zero exit
\* status) returns the negative answer from its catch block: false, or an
\* object with exists false.
C27_LookupsNeverThrow ==
    \A t \in DOMAIN tasks :
        tasks[t].op \in LookupOps =>
            /\ tasks[t].pc # "failed"
            /\ tasks[t].error = "none"
            /\ tasks[t].caught # "none" =>
                    /\ tasks[t].pc = "done"
                    /\ IF tasks[t].op = "checkDirectoryExists"
                       THEN tasks[t].result = "false"
                       ELSE ~tasks[t].info.exists

\* getFileInfo returned exists false because its second command failed.
C27_Witness ==
    \E t \in DOMAIN tasks :
        /\ tasks[t].op = "getFileInfo" /\ tasks[t].pc = "done"
        /\ tasks[t].caught = "command"
        /\ Len(tasks[t].issued) = 2
        /\ ~tasks[t].info.exists

\* A getFolderInfo call that returned what it made of its command's output.
Answered(t) ==
    /\ tasks[t].op = "getFolderInfo" /\ tasks[t].pc = "done"
    /\ ~tasks[t].skipped /\ tasks[t].caught = "none"

NoFolder == [exists |-> FALSE, file_count |-> 0, size_bytes |-> 0, size_mb |-> 0, error |-> "none"]

Numeric(line) == line # <<>> /\ \A i \in 1 .. Len(line) : IsDigit(line[i])

\* The number a line stands for when it is there and numeric, else 0.
NumberOrZero(lines, i) ==
    IF i <= Len(lines) /\ Numeric(lines[i]) THEN DigitsValue(lines[i], 0) ELSE 0

\* The integer a line begins with after its leading white space, 0 when
\* the line is missing or begins with no digit.
LeadingNumberOrZero(lines, i) ==
    IF i > Len(lines) THEN 0
    ELSE LET line == TrimStart(lines[i])
         IN IF line = <<>> \/ ~IsDigit(line[1]) THEN 0
            ELSE LET digits == CHOOSE k \in 1 .. Len(line) :
                                    /\ \A j \in 1 .. k : IsDigit(line[j])
                                    /\ k < Len(line) => ~IsDigit(line[k + 1])
                 IN DigitsValue(SubSeq(line, 1, digits), 0)

Age(key) ==
    IF IsCacheKey(key) THEN now - operationQueue[key].timestamp ELSE now - operationQueue[key]

\* C29: right after a run of the periodic cleanup the shared map holds no
\* cooldown entry older than 10 s, no getFolderInfo entry older than 30 s
\* and no checkDirectoryExists entry older than 60 s.
C29_SweptToTwiceTheWindow ==
    (lastCleanup = now /\ lastCleanup > StartTime) =>
        \A key \in DOMAIN operationQueue :
            Age(key) <= (CASE key[1] = "folder_info" -> 30000
                           [] key[1] = "dir_exists" -> 60000
                           [] OTHER -> 2 * cooldownPeriod)

FolderCalls == {t \in DOMAIN tasks : tasks[t].op = "createUserFolder"}
SameParameters(t, u) ==
    tasks[t].userLogin = tasks[u].userLogin /\ tasks[t].folderName = tasks[u].folderName

\* Calls whose parameters differ get different operation keys.
C30_DistinctKeys ==
    \A t \in FolderCalls, u \in FolderCalls :
        ~SameParameters(t, u) => OwnKey(tasks[t]) # OwnKey(tasks[u])

\* A call is skipped only after a call with the same parameters succeeded.
C30_NoForeignSkip ==
    \A t \in FolderCalls :
        tasks[t].skipped =>
            \E u \in FolderCalls :
                /\ u # t /\ SameParameters(t, u)
                /\ tasks[u].pc = "done" /\ ~tasks[u].skipped

\* C30: generateOperationKey gives calls with different parameter tuples
\* (operation, server id, user login, folder name) different keys, so a
\* call is skipped by the cooldown only on account of an earlier call for
\* the same user and folder.
C30_KeysTellCallsApart == C30_DistinctKeys /\ C30_NoForeignSkip

(***************************************************************************)
(* Properties of overlapping calls, the pool's bookkeeping and the caches. *)
(***************************************************************************)
UserDirectoryOps == {"createUserDirectory", "createCompleteUserStructure"}

\* The call has not returned yet.
Running(t) == tasks[t].pc \notin {"idle", "done", "failed"}

\* The call has sent a creation command (anything after its check).
IssuedCreation(t) == \E i \in DOMAIN tasks[t].issued : tasks[t].issued[i].kind # "test"

C34_CloseEvictsOnlyItself ==
    [][\A s \in SessionIds :
        CloseHandled(s)
        => \A k \in DOMAIN connections :
                (connections[k] # s /\ Live(connections[k]))
                => (MapHas(connections', k) /\ connections'[k] = connections[k])]_vars

\* C35: every live session (handshake completed, not ended, transport
\* open) is the pool's entry for its endpoint key.
C35_LiveIsPooled ==
    \A s \in SessionIds :
        Live(s) => (MapHas(connections, sessions[s].key) /\ connections[sessions[s].key] = s)

\* The call before call t was the same operation with the same parameters.
Repeats(t) ==
    /\ t > 1
    /\ tasks'[t].op = tasks[t - 1].op
    /\ tasks'[t].userLogin = tasks[t - 1].userLogin
    /\ tasks'[t].folderName = tasks[t - 1].folderName

\* C36: the step in which a provisioning call throws leaves the cooldown
\* map as it was, and the call that follows a failed call with the same
\* operation key is not skipped: it sends its existence check again.
C36_FailureLeavesNoEntry ==
    /\ [][\A t \in DOMAIN tasks :
            (tasks[t].op \in ProvisioningOps /\ tasks[t].pc # "failed" /\ tasks'[t].pc = "failed")
            => operationQueue' = operationQueue]_vars
    /\ [][\A t \in DOMAIN tasks :
            (Invoked(t) /\ Repeats(t) /\ tasks[t - 1].pc = "failed")
            => /\ ~tasks'[t].skipped
               /\ tasks'[t].pc = "check"
               /\ tasks'[t].issued = <<TestCommand(TargetPath(tasks'[t]))>>]_vars

C36_Witness ==
    \E t \in DOMAIN tasks :
        /\ t > 1
        /\ tasks[t - 1].pc = "failed" /\ tasks[t - 1].op = "createCompleteUserStructure"
        /\ tasks[t].op = tasks[t - 1].op /\ tasks[t].userLogin = tasks[t - 1].userLogin
        /\ tasks[t].pc = "check" /\ tasks[t].delegations = 1
        /\ DOMAIN operationQueue = {}

CachedOps == {"checkDirectoryExists", "getFolderInfo"}

\* The cache key of a checkDirectoryExists or getFolderInfo call.
CacheKeyOf(task) ==
    IF task.op = "getFolderInfo" THEN FolderInfoCacheKey(task.path)
    ELSE DirExistsCacheKey(task.path)

\* The answer of a call, as the cache would hold it.
AnswerOf(task) ==
    IF task.op = "getFolderInfo" THEN task.info ELSE task.result = "true"

\* The awaited command of call t settles in this step.
Settles(t) == Running(t) /\ tasks'[t].pc = "done"

\* C38: a checkDirectoryExists or getFolderInfo call whose command fails
\* answers negatively and leaves the cache as it was; an entry is written
\* only by a call whose command completed, and holds that call's answer and
\* the time of the write; and the call that follows a failed call for the
\* same path sends its command again.
C38_FailureIsNotCached ==
    /\ [][\A t \in DOMAIN tasks :
            (tasks[t].op \in CachedOps /\ Settles(t) /\ tasks'[t].caught # "none")
            => /\ operationQueue' = operationQueue
               /\ ~tasks'[t].info.exists /\ tasks'[t].result # "true"]_vars
    /\ [][operationQueue' # operationQueue
            => \E t \in DOMAIN tasks :
                /\ tasks[t].op \in CachedOps /\ Settles(t) /\ tasks'[t].caught = "none"
                /\ operationQueue' = MapSet(operationQueue, CacheKeyOf(tasks[t]),
                        [timestamp |-> now, result |-> AnswerOf(tasks'[t])])]_vars
    /\ [][\A t \in DOMAIN tasks :
            (/\ Invoked(t) /\ t > 1
             /\ tasks[t - 1].op \in CachedOps /\ tasks[t - 1].caught # "none"
             /\ tasks'[t].op = tasks[t - 1].op /\ tasks'[t].path = tasks[t - 1].path)
            => /\ ~tasks'[t].skipped
               /\ Len(tasks'[t].issued) = 1
               /\ tasks'[t].pc \in {"check", "folderInfo"}]_vars

C38_Witness ==
    \E t \in DOMAIN tasks :
        /\ t > 1
        /\ tasks[t - 1].op = "getFolderInfo" /\ tasks[t - 1].caught # "none"
        /\ tasks[t].op = "getFolderInfo" /\ tasks[t].path = tasks[t - 1].path
        /\ tasks[t].pc = "folderInfo"
        /\ MapHas(operationQueue, FolderInfoCacheKey(tasks[t].path))

\* The window of an entry: 5 s for a cooldown entry, 15 s for a
\* getFolderInfo entry, 30 s for a checkDirectoryExists entry.
WindowOf(key) ==
    CASE key[1] = "folder_info" -> 15000
      [] key[1] = "dir_exists" -> 30000
      [] OTHER -> 5000

InWindow(key) ==
    IF IsCacheKey(key)
    THEN now - operationQueue[key].timestamp < WindowOf(key)
    ELSE now - operationQueue[key] < WindowOf(key)

\* The periodic sweep runs in this step.
Swept == lastCleanup' # lastCleanup

\* C39: the periodic cleanup removes no entry that is still inside its
\* window and changes no entry it keeps, so every freshness test (cooldown,
\* getFolderInfo cache, checkDirectoryExists cache) reads the same after the
\* sweep as before it and no call in progress is affected.
C39_SweepSparesFresh ==
    [][Swept =>
        /\ \A key \in DOMAIN operationQueue :
                /\ InWindow(key) => key \in DOMAIN operationQueue'
                /\ key \in DOMAIN operationQueue' => operationQueue'[key] = operationQueue[key]
        /\ DOMAIN operationQueue' \subseteq DOMAIN operationQueue
        /\ \A p \in FolderPaths :
                /\ DirExistsCached(p)' = DirExistsCached(p)
                /\ FolderInfoCached(p)' = FolderInfoCached(p)
        /\ \A u \in Users, f \in Folders :
                isOperationInCooldown(UserFolderKey(u, f))' = isOperationInCooldown(UserFolderKey(u, f))
        /\ tasks' = tasks /\ remote' = remote]_vars

\* A sweep has removed the cooldown entry of a call that had recorded it.
C39_Witness ==
    /\ lastCleanup # StartTime
    /\ \E t \in DOMAIN tasks :
        /\ tasks[t].op = "createUserFolder" /\ tasks[t].pc = "done" /\ ~tasks[t].skipped
        /\ ~MapHas(operationQueue, OwnKey(tasks[t]))

\* C37: a checkCompleteUserStructure call served from the cooldown reports
\* the answer of the check that recorded the cooldown entry: when the call
\* before it was a check of the same user that was not skipped, the two
\* report the same value of complete (and streaming_directory).
C37_CooldownRepeatsTheCheck ==
    [][\A t \in DOMAIN tasks :
        (/\ Invoked(t) /\ t > 1
         /\ tasks'[t].op = "checkCompleteUserStructure" /\ tasks'[t].skipped
         /\ tasks[t - 1].op = "checkCompleteUserStructure" /\ ~tasks[t - 1].skipped
         /\ tasks[t - 1].userLogin = tasks'[t].userLogin)
        => tasks'[t].result = tasks[t - 1].result]_vars

(***************************************************************************)
(* Properties of the routes.                                               *)
(***************************************************************************)
ReturnedSuccess(r, op) ==
    tasks[r].op = op /\ tasks[r].pc = "done" /\ tasks[r].result = "success"

\* Request r calls uploadFile, resp. createUserFolder, in this step.
CallsUploadFile(r) == calls[r].pc = "idle" /\ calls'[r].op = "uploadFile"
CallsUserFolder(r) == tasks[r].op # "createUserFolder" /\ tasks'[r].op = "createUserFolder"

\* C31: in the upload route createUserFolder is called only when
\* createCompleteUserStructure has returned success and uploadFile only
\* when createUserFolder then has; when either provisioning call throws the
\* request is answered at once with status 500 and the error's message, no
\* transfer is started and no video row is inserted.
C31_ProvisionThenUpload ==
    /\ [][\A r \in Requests :
            /\ CallsUserFolder(r) => ReturnedSuccess(r, "createCompleteUserStructure")
            /\ CallsUploadFile(r) =>
                    /\ requests[r].pc = "folder"
                    /\ ReturnedSuccess(r, "createUserFolder")]_vars
    /\ [][\A r \in Requests :
            (/\ requests[r].pc \in {"structure", "folder"}
             /\ tasks[r].pc = "failed"
             /\ requests'[r] # requests[r])
            => /\ requests'[r].pc = "answered" /\ requests'[r].status = 500
               /\ requests'[r].details = tasks[r].error
               /\ calls' = calls /\ videos' = videos /\ files' = files]_vars
    /\ [](\A r \in Requests :
            requests[r].pc \in {"structure", "folder", "answered"} => calls[r].pc = "idle")

\* The folder could not be created: the request is answered with the
\* message of createUserFolder's error and nothing was transferred.
C31_Witness ==
    \E r \in Requests :
        /\ requests[r].route = "upload" /\ requests[r].pc = "answered"
        /\ requests[r].status = 500 /\ requests[r].details = "Pasta nao foi criada"
        /\ calls[r].pc = "idle" /\ videos = EmptyMap /\ files = EmptyMap

\* Request r is past the ownership check and not answered yet.
Deleting(r) == requests[r].route = "delete" /\ requests[r].pc \in {"fileInfo", "deleteFile"}

\* C32: in the delete route, once the record was found and the ownership
\* check passed, neither getFileInfo nor deleteFile can stop the handler:
\* whatever they return or throw, deleteFile is called after getFileInfo and
\* the DELETE statement after deleteFile, and when the database statements
\* complete the record is gone and the answer is success; the only error
\* answer is the one of a database statement.
C32_RecordRemovedRegardless ==
    [][\A r \in Requests :
        (Deleting(r) /\ requests'[r] # requests[r])
        => IF requests[r].pc = "fileInfo"
           THEN requests'[r].pc = "deleteFile" /\ tasks'[r].op = "deleteFile"
           ELSE /\ requests'[r].pc = "answered"
                /\ requests'[r].warned = (tasks[r].pc = "failed")
                /\ \/ /\ requests'[r].status = 200
                      /\ ~MapHas(videos', requests[r].videoId)
                   \/ /\ requests'[r].status = 500
                      /\ requests'[r].details = "database"]_vars

\* The remote removal failed, the file is still on the host, and the
\* request was answered success with the record gone.
C32_Witness ==
    \E r \in Requests :
        /\ requests[r].route = "delete" /\ requests[r].pc = "answered"
        /\ requests[r].status = 200 /\ requests[r].warned
        /\ ~MapHas(videos, requests[r].videoId)
        /\ requests[r].remotePath \in DOMAIN files

====
